---- MODULE Spec2Model ----
(***************************************************************************)
(* A model of the standup reminder bot: the persistent store (standups,    *)
(* standup_members, users, leaves), the roster order operations, the       *)
(* facilitator rotation, the dispatch cycle and the cron scheduler.        *)
(***************************************************************************)
EXTENDS Integers, Sequences, FiniteSets, TLC

\* ------------------------------------------------------------------ bounds
MaxUsers == 3
MaxCalls == 2
MaxCycles == 2

Users == 1..MaxUsers
StandupIDs == {1, 2}
\* The standup the requests of a behaviour are made on; the rows and the
\* cursor of the other standup are bystanders no such request may touch.
EditedStandup == 1
CallIDs == 1..MaxCalls

\* A NULL last_facilitator_id (sql.NullInt64 with Valid = false); user ids
\* are AUTOINCREMENT keys and start at 1.
NULL == 0

VARIABLES
    standups,         \* standups table: id -> [is_active, run_at, last_facilitator_id]
    standup_members,  \* standup_members table: standup id -> (user id -> display_order)
    users,            \* users table: id -> [is_active]
    leaves,           \* leaves table: a set of rows
    today,            \* the day date('now') gives (days are numbered)
    rowOrder,         \* the order in which a query without ORDER BY yields users
    config,           \* the configuration loaded at start: [SkipWeekends]
    calls,            \* requests in flight: slot -> locals of the call
    ret,              \* the request that returned last: its arguments and its response
    cronScheduler,    \* the cron object the package variable points to
    orphans,          \* running cron objects the variable no longer points to
    main,             \* the process: "starting", "serving" or "exited"
    cycles,           \* dispatch cycles in flight: slot -> locals of the goroutine
    fin               \* the dispatch cycle that ended last: its outcome

envVars == <<today, rowOrder, config>>
dbVars == <<standups, standup_members, users, leaves, envVars>>
schedVars == <<cronScheduler, orphans, main>>
cycleVars == <<cycles, fin>>
vars == <<standups, standup_members, users, leaves, today, rowOrder, config,
          calls, ret, cronScheduler, orphans, main, cycles, fin>>

\* ------------------------------------------------------------ sequences
Range(f) == {f[x] : x \in DOMAIN f}

IsInjective(q) == \A i, j \in DOMAIN q : q[i] = q[j] => i = j

\* All sequences over S of length at most n.
SeqsUpTo(S, n) == UNION {[1..k -> S] : k \in 0..n}

\* All orderings of the finite set S.
RECURSIVE Perms(_)
Perms(S) ==
    IF S = {} THEN {<<>>}
    ELSE UNION {{<<x>> \o q : q \in Perms(S \ {x})} : x \in S}

\* --------------------------------------------------------- roster table
\* The rows of one standup are a function user_id -> display_order
\* (PRIMARY KEY (standup_id, user_id): one row per user).
NoRows == [u \in {} |-> 0]

\* display_name order of the users table; names are taken distinct and in
\* id order, so the second ORDER BY key is the user id.
NameBefore(u, v) == u < v

RowBefore(r, u, v) ==
    \/ r[u] < r[v]
    \/ r[u] = r[v] /\ NameBefore(u, v)

\* The users of the set S in the order of their rows in r.
RECURSIVE SortRows(_, _)
SortRows(r, S) ==
    IF S = {} THEN <<>>
    ELSE LET first == CHOOSE u \in S : \A v \in S \ {u} : RowBefore(r, u, v)
         IN  <<first>> \o SortRows(r, S \ {first})

\* SELECT ... ORDER BY sm.display_order, u.display_name
GetStandupMembers(r) == SortRows(r, DOMAIN r)

\* ---------------------------------------------------- roster operations
\* The statements of the transactions, on the rows r of one standup.

\* DELETE FROM standup_members WHERE standup_id = ? AND user_id = ?
DeleteRow(r, u) == [x \in (DOMAIN r) \ {u} |-> r[x]]

\* UPDATE ... SET display_order = display_order - 1 WHERE display_order > ?
CloseGapAll(r, removedOrder) ==
    [x \in DOMAIN r |-> IF r[x] > 0 THEN r[x] - 1 ELSE r[x]]
CloseGap(r, removedOrder) ==
    [x \in DOMAIN r |-> IF r[x] > removedOrder THEN r[x] - 1 ELSE r[x]]

\* UPDATE ... SET display_order = ? WHERE standup_id = ? AND display_order = ?
SetOrderWhereOrder(r, newOrder, oldOrder) ==
    [x \in DOMAIN r |-> IF r[x] = oldOrder THEN newOrder ELSE r[x]]

\* UPDATE ... SET display_order = ? WHERE standup_id = ? AND user_id = ?
SetOrderOfUser(r, newOrder, u) ==
    [x \in DOMAIN r |-> IF x = u THEN newOrder ELSE r[x]]

\* The committed transaction of RemoveStandupMember, removedOrder being the
\* order it selected inside the transaction.
RemoveNoReorder(r, u) == DeleteRow(r, u)
RemoveTx(r, u) == CloseGap(DeleteRow(r, u), r[u])

\* The committed transaction of MoveMemberUp for the order read before it.
MoveUpNoSwap(r, u, currentOrder) == SetOrderOfUser(r, currentOrder - 1, u)
MoveUpTx(r, u, currentOrder) ==
    SetOrderOfUser(SetOrderWhereOrder(r, currentOrder, currentOrder - 1),
                   currentOrder - 1, u)

\* The committed transaction of MoveMemberDown for the order read before it.
MoveDownTx(r, u, currentOrder) ==
    SetOrderOfUser(SetOrderWhereOrder(r, currentOrder, currentOrder + 1),
                   currentOrder + 1, u)

\* The inserts of SetStandupMembers: position i of the list (from 0) is the
\* display_order. A repeated user id violates the primary key and the
\* statement fails.
InsertsSucceed(userIDs) == IsInjective(userIDs)
InsertFromOne(userIDs) ==
    [u \in Range(userIDs) |-> CHOOSE i \in DOMAIN userIDs : userIDs[i] = u]
InsertAll(userIDs) ==
    [u \in Range(userIDs) |-> (CHOOSE i \in DOMAIN userIDs : userIDs[i] = u) - 1]

\* SELECT MAX(display_order) FROM standup_members WHERE standup_id = ?
CountRows(r) == Cardinality(DOMAIN r)
MaxOrder(r) == CHOOSE m \in Range(r) : \A k \in Range(r) : k <= m

\* ------------------------------------------------------ roster op calls
NoCall == [op |-> "none", standup |-> 0, user |-> 0, pc |-> "idle",
           currentOrder |-> 0, tbl |-> <<>>, todo |-> <<>>]
\* The StandupWithMembers a request responds with, and the list of eligible
\* users it was computed from.
NoView == [members |-> <<>>, eligible |-> <<>>, last |-> NULL, current |-> NULL,
           prevOp |-> "none", prevUser |-> 0, prevErr |-> "nil"]
\* list: the user ids a SetStandupMembers request has committed.
Response(op, s, u, e, v) ==
    [op |-> op, standup |-> s, user |-> u, err |-> e, view |-> v,
     refresh |-> "none", prevRefresh |-> "none", list |-> <<>>]
NoRet == Response("none", 0, 0, "nil", NoView)

InFlight == {c \in CallIDs : calls[c].pc # "idle"}

\* A new call takes the lowest free slot, while fewer than limit calls run.
FreeSlot(c, limit) ==
    /\ calls[c].pc = "idle"
    /\ \A d \in CallIDs : d < c => calls[d].pc # "idle"
    /\ Cardinality(InFlight) < limit

Return(c, op, s, u, e) ==
    /\ calls' = [calls EXCEPT ![c] = NoCall]
    /\ ret' = Response(op, s, u, e, NoView)

\* A transaction that is not rolled back: the rows inserted before the
\* failing statement replace the roster.
InsertedSoFar(r, userIDs) ==
    LET done == CHOOSE n \in 0..Len(userIDs) :
                    /\ IsInjective(SubSeq(userIDs, 1, n))
                    /\ \A m \in (n + 1)..Len(userIDs) :
                            ~IsInjective(SubSeq(userIDs, 1, m))
    IN InsertAll(SubSeq(userIDs, 1, done))
\* defer tx.Rollback(): a return before the commit undoes the DELETE and the
\* inserts made so far, and the rows r of the standup are as they were.
RolledBack(r, userIDs) == r
\* SetStandupMembers: one transaction (delete all, insert the list, commit).
SetStandupMembers(c, s, userIDs, limit) ==
    /\ FreeSlot(c, limit)
    /\ \E dbOk \in BOOLEAN :
        IF dbOk /\ InsertsSucceed(userIDs)
        THEN /\ standup_members' = [standup_members EXCEPT ![s] = InsertAll(userIDs)]
             /\ calls' = [calls EXCEPT ![c] = NoCall]
             /\ ret' = [Response("SetStandupMembers", s, 0, "nil", NoView)
                            EXCEPT !.list = userIDs]
        ELSE /\ standup_members' =
                    [standup_members EXCEPT ![s] = RolledBack(standup_members[s], userIDs)]
             /\ Return(c, "SetStandupMembers", s, 0, "failed")
    /\ UNCHANGED <<standups, users, leaves, envVars, schedVars, cycleVars>>

\* RemoveStandupMember: one transaction (select the order, delete, close the
\* gap, commit).
RemoveStandupMember(c, s, u, limit) ==
    /\ FreeSlot(c, limit)
    /\ \E dbOk \in BOOLEAN :
        IF u \notin DOMAIN standup_members[s]
        THEN /\ UNCHANGED standup_members
             /\ Return(c, "RemoveStandupMember", s, u, "member not found")
        ELSE IF dbOk
        THEN /\ standup_members' =
                    [standup_members EXCEPT ![s] = RemoveTx(standup_members[s], u)]
             /\ Return(c, "RemoveStandupMember", s, u, "nil")
        ELSE /\ UNCHANGED standup_members
             /\ Return(c, "RemoveStandupMember", s, u, "failed")
    /\ UNCHANGED <<standups, users, leaves, envVars, schedVars, cycleVars>>

\* INSERT OR IGNORE INTO standup_members (standup_id, user_id) VALUES (?, ?):
\* the new row takes the column default, display_order 0; a row that
\* exists already is left alone.
DefaultOrder == 0
InsertOrIgnore(r, u) ==
    IF u \in DOMAIN r THEN r
    ELSE [x \in DOMAIN r \cup {u} |-> IF x = u THEN DefaultOrder ELSE r[x]]

\* AddStandupMember: the one insert, outside any transaction.
AddStandupMember(s, u) ==
    /\ InFlight = {}
    /\ \E dbOk \in BOOLEAN :
        /\ standup_members' =
                IF dbOk
                THEN [standup_members EXCEPT ![s] = InsertOrIgnore(standup_members[s], u)]
                ELSE standup_members
        /\ ret' = Response("AddStandupMember", s, u,
                           IF dbOk THEN "nil" ELSE "failed", NoView)
    /\ UNCHANGED <<standups, users, leaves, envVars, calls, schedVars, cycleVars>>

\* MoveMemberUp, first part: the order is read outside the transaction.
MoveMemberUp(c, s, u, limit) ==
    /\ FreeSlot(c, limit)
    /\ IF u \notin DOMAIN standup_members[s]
       THEN Return(c, "MoveMemberUp", s, u, "failed to get current order")
       ELSE IF standup_members[s][u] = 0
       THEN Return(c, "MoveMemberUp", s, u, "member is already at the top")
       ELSE /\ calls' = [calls EXCEPT ![c] =
                    [NoCall EXCEPT !.op = "MoveMemberUp", !.standup = s,
                        !.user = u, !.pc = "tx",
                        !.currentOrder = standup_members[s][u]]]
            /\ UNCHANGED ret
    /\ UNCHANGED <<dbVars, schedVars, cycleVars>>

\* MoveMemberUp, second part: the transaction with the two updates.
MoveMemberUpCommit(c) ==
    LET k == calls[c] IN
    /\ k.op = "MoveMemberUp" /\ k.pc = "tx"
    /\ \E dbOk \in BOOLEAN :
        IF dbOk
        THEN /\ standup_members' = [standup_members EXCEPT ![k.standup] =
                    MoveUpTx(standup_members[k.standup], k.user, k.currentOrder)]
             /\ Return(c, k.op, k.standup, k.user, "nil")
        ELSE /\ UNCHANGED standup_members
             /\ Return(c, k.op, k.standup, k.user, "failed")
    /\ UNCHANGED <<standups, users, leaves, envVars, schedVars, cycleVars>>

\* MoveMemberDown, first part: the member's order is read.
MoveMemberDown(c, s, u, limit) ==
    /\ FreeSlot(c, limit)
    /\ IF u \notin DOMAIN standup_members[s]
       THEN Return(c, "MoveMemberDown", s, u, "failed to get current order")
       ELSE /\ calls' = [calls EXCEPT ![c] =
                    [NoCall EXCEPT !.op = "MoveMemberDown", !.standup = s,
                        !.user = u, !.pc = "read_max",
                        !.currentOrder = standup_members[s][u]]]
            /\ UNCHANGED ret
    /\ UNCHANGED <<dbVars, schedVars, cycleVars>>

\* MoveMemberDown, second part: the maximum order is read, in a query of
\* its own.
MoveMemberDownReadMax(c) ==
    LET k == calls[c]
        r == standup_members[k.standup] IN
    /\ k.op = "MoveMemberDown" /\ k.pc = "read_max"
    /\ IF DOMAIN r = {}
       THEN Return(c, k.op, k.standup, k.user, "failed to get max order")
       ELSE IF k.currentOrder >= MaxOrder(r)
       THEN Return(c, k.op, k.standup, k.user, "member is already at the bottom")
       ELSE /\ calls' = [calls EXCEPT ![c].pc = "tx"]
            /\ UNCHANGED ret
    /\ UNCHANGED <<dbVars, schedVars, cycleVars>>

\* MoveMemberDown, third part: the transaction with the two updates.
MoveMemberDownCommit(c) ==
    LET k == calls[c] IN
    /\ k.op = "MoveMemberDown" /\ k.pc = "tx"
    /\ \E dbOk \in BOOLEAN :
        IF dbOk
        THEN /\ standup_members' = [standup_members EXCEPT ![k.standup] =
                    MoveDownTx(standup_members[k.standup], k.user, k.currentOrder)]
             /\ Return(c, k.op, k.standup, k.user, "nil")
        ELSE /\ UNCHANGED standup_members
             /\ Return(c, k.op, k.standup, k.user, "failed")
    /\ UNCHANGED <<standups, users, leaves, envVars, schedVars, cycleVars>>

\* ------------------------------------------------------------ eligibility
\* Dates as the store compares them: TEXT values under memcmp. A date-only
\* text 'YYYY-MM-DD' of day d is <<d>> (date('now')); a leave's start_date
\* and end_date are bound as time.Time values of midnight and stored as the
\* timestamp text 'YYYY-MM-DD 00:00:00+00:00', <<d, 0>>: the same ten
\* characters followed by more.
DateText(d) == <<d>>
TimestampText(d) == <<d, 0>>

\* a <= b for two such texts: by day, then the shorter first.
TextLE(a, b) == a[1] < b[1] \/ (a[1] = b[1] /\ Len(a) <= Len(b))

\* user_id IN (SELECT user_id FROM leaves WHERE status = 'active'
\*   AND start_date <= date('now') AND end_date >= date('now'))
OnLeave(u, now) ==
    \E l \in leaves :
        /\ l.user_id = u
        /\ l.status = "active"
        /\ TextLE(l.start_date, DateText(now))
        /\ TextLE(DateText(now), l.end_date)

\* The users GetEligibleUsersForStandup returns: assigned to the standup,
\* active, and not on leave.
EligibleSet(s, now) ==
    {u \in DOMAIN standup_members[s] : users[u].is_active /\ ~OnLeave(u, now)}

\* The query has no ORDER BY: the rows come in the order in which the store
\* walks the users, the same for every run of the query.
RECURSIVE SelectUsers(_, _)
SelectUsers(order, S) ==
    IF order = <<>> THEN <<>>
    ELSE IF Head(order) \in S THEN <<Head(order)>> \o SelectUsers(Tail(order), S)
    ELSE SelectUsers(Tail(order), S)
GetEligibleUsersForStandup(s, now) == SelectUsers(rowOrder, EligibleSet(s, now))

\* ---------------------------------------------------------------- rotation
\* The index (from 1) of user id in the member list, 0 when absent: the
\* loop that sets lastFacIndex (-1 when absent, indices from 0 in the code).
IndexOrFirst(allMembers, id) ==
    IF \E i \in DOMAIN allMembers : allMembers[i] = id
    THEN CHOOSE i \in DOMAIN allMembers :
            /\ allMembers[i] = id
            /\ \A j \in DOMAIN allMembers : allMembers[j] = id => i <= j
    ELSE 1
IndexOf(allMembers, id) ==
    IF \E i \in DOMAIN allMembers : allMembers[i] = id
    THEN CHOOSE i \in DOMAIN allMembers :
            /\ allMembers[i] = id
            /\ \A j \in DOMAIN allMembers : allMembers[j] = id => i <= j
    ELSE 0

\* for i := lo; i <= hi; i++ { for _, eligible := range eligibleUsers {
\*   if allMembers[i].ID == eligible.ID { return &eligible } } }
\* NULL when the loop ends without returning.
NextMember(allMembers, eligibleUsers, lo, hi) ==
    IF lo > hi THEN NULL ELSE allMembers[lo]
RECURSIVE ScanMembers(_, _, _, _)
ScanMembers(allMembers, eligibleUsers, lo, hi) ==
    IF lo > hi THEN NULL
    ELSE IF \E j \in DOMAIN eligibleUsers : eligibleUsers[j] = allMembers[lo]
    THEN allMembers[lo]
    ELSE ScanMembers(allMembers, eligibleUsers, lo + 1, hi)

\* The forward scan, the wrap-around scan and the fallback, anchored at the
\* (found) index of the anchor member.
ScanNoWrap(allMembers, eligibleUsers, index) ==
    LET forward == ScanMembers(allMembers, eligibleUsers, index + 1, Len(allMembers))
    IN  IF forward # NULL THEN forward ELSE eligibleUsers[1]
ScanFromCursor(allMembers, eligibleUsers, index) ==
    LET forward == ScanMembers(allMembers, eligibleUsers, index, Len(allMembers))
        wrapped == ScanMembers(allMembers, eligibleUsers, 1, index)
    IN  IF forward # NULL THEN forward
        ELSE IF wrapped # NULL THEN wrapped
        ELSE eligibleUsers[1]
ScanFromIndex(allMembers, eligibleUsers, index) ==
    LET forward == ScanMembers(allMembers, eligibleUsers, index + 1, Len(allMembers))
        wrapped == ScanMembers(allMembers, eligibleUsers, 1, index)
    IN  IF forward # NULL THEN forward
        ELSE IF wrapped # NULL THEN wrapped
        ELSE eligibleUsers[1]

\* The scan anchored at the cursor's position in the eligible list instead.
CurrentAmongEligible(lastFacilitatorID, allMembers, eligibleUsers) ==
    IF Len(eligibleUsers) = 0 THEN NULL
    ELSE IF lastFacilitatorID = NULL THEN eligibleUsers[1]
    ELSE IF IndexOf(eligibleUsers, lastFacilitatorID) = 0 THEN eligibleUsers[1]
    ELSE ScanFromIndex(allMembers, eligibleUsers,
                       IndexOf(allMembers, lastFacilitatorID))
\* GetCurrentFacilitator on the standup's cursor and member list as read;
\* NULL stands for the error "no eligible users".
GetCurrentFacilitator(lastFacilitatorID, allMembers, eligibleUsers) ==
    IF Len(eligibleUsers) = 0 THEN NULL
    ELSE IF lastFacilitatorID = NULL THEN eligibleUsers[1]
    ELSE IF IndexOf(allMembers, lastFacilitatorID) = 0 THEN eligibleUsers[1]
    ELSE ScanFromIndex(allMembers, eligibleUsers,
                       IndexOf(allMembers, lastFacilitatorID))

\* The first eligible member of the roster, whoever is current.
NextFromTheStart(allMembers, eligibleUsers, currentFacilitatorID) ==
    IF Len(eligibleUsers) = 0 THEN NULL
    ELSE ScanFromIndex(allMembers, eligibleUsers, 0)
\* GetNextFacilitator: the same scan anchored at currentFacilitatorID.
GetNextFacilitator(allMembers, eligibleUsers, currentFacilitatorID) ==
    IF Len(eligibleUsers) = 0 THEN NULL
    ELSE IF IndexOf(allMembers, currentFacilitatorID) = 0 THEN eligibleUsers[1]
    ELSE ScanFromIndex(allMembers, eligibleUsers,
                       IndexOf(allMembers, currentFacilitatorID))

\* UPDATE standups SET last_facilitator_id = ? WHERE id = ?
WriteNothing(s, u) == standups
WriteAllStandups(s, u) ==
    [t \in StandupIDs |-> [standups[t] EXCEPT !.last_facilitator_id = u]]
WriteIfActive(s, u) ==
    IF standups[s].is_active THEN [standups EXCEPT ![s].last_facilitator_id = u]
    ELSE standups
WriteLastFacilitator(s, u) ==
    [standups EXCEPT ![s].last_facilitator_id = u]

\* The view GetStandupWithMembers builds from the store as it is, for the
\* eligible list the store returned (<<>> when that query failed).
StandupView(tbl, s, eligibleUsers) ==
    [members |-> GetStandupMembers(standup_members[s]),
     eligible |-> eligibleUsers,
     last |-> tbl[s].last_facilitator_id,
     current |-> GetCurrentFacilitator(tbl[s].last_facilitator_id,
                    GetStandupMembers(standup_members[s]), eligibleUsers),
     prevOp |-> ret.op,
     prevUser |-> ret.user,
     prevErr |-> ret.err]

\* ------------------------------------------------------ rotation requests
NoCallRunning == InFlight = {}

\* SetFacilitatorHandler: SetLastFacilitator(standupID, req.UserID).
SetLastFacilitator(s, u) ==
    /\ NoCallRunning
    /\ \E dbOk \in BOOLEAN :
        IF dbOk
        THEN /\ standups' = WriteLastFacilitator(s, u)
             /\ ret' = Response("SetLastFacilitator", s, u, "nil", NoView)
        ELSE /\ UNCHANGED standups
             /\ ret' = Response("SetLastFacilitator", s, u, "failed", NoView)
    /\ UNCHANGED <<standup_members, users, leaves, envVars, calls, schedVars, cycleVars>>

DeactivateUser(u) ==
    /\ NoCallRunning
    /\ users[u].is_active
    /\ users' = [users EXCEPT ![u].is_active = FALSE]
    /\ ret' = Response("DeactivateUser", 0, u, "nil", NoView)
    /\ UNCHANGED <<standups, standup_members, leaves, envVars, calls, schedVars, cycleVars>>

ReactivateUser(u) ==
    /\ NoCallRunning
    /\ ~users[u].is_active
    /\ users' = [users EXCEPT ![u].is_active = TRUE]
    /\ ret' = Response("ReactivateUser", 0, u, "nil", NoView)
    /\ UNCHANGED <<standups, standup_members, leaves, envVars, calls, schedVars, cycleVars>>

\* GetStandupHandler: the view of the standup, with the current facilitator
\* computed from the eligible users.
GetStandupWithMembers(s) ==
    /\ NoCallRunning
    /\ \E dbOk \in BOOLEAN :
        IF dbOk
        THEN \E eligibleUsers \in {GetEligibleUsersForStandup(s, today), <<>>} :
                ret' = Response("GetStandupWithMembers", s, 0, "nil",
                                StandupView(standups, s, eligibleUsers))
        ELSE ret' = Response("GetStandupWithMembers", s, 0, "failed", NoView)
    /\ UNCHANGED <<dbVars, calls, schedVars, cycleVars>>

\* RotateFacilitatorHandler: the current facilitator becomes the cursor, and
\* the response is the view read after the write.
RotateFacilitatorHandler(s) ==
    /\ NoCallRunning
    /\ \E dbOk \in BOOLEAN, eligibleUsers \in {GetEligibleUsersForStandup(s, today)} :
        LET currentFac == GetCurrentFacilitator(standups[s].last_facilitator_id,
                              GetStandupMembers(standup_members[s]), eligibleUsers)
        IN  IF Len(eligibleUsers) = 0
            THEN /\ UNCHANGED standups
                 /\ ret' = Response("RotateFacilitator", s, 0,
                                    "No eligible users for standup", NoView)
            ELSE IF ~dbOk
            THEN /\ UNCHANGED standups
                 /\ ret' = Response("RotateFacilitator", s, currentFac, "failed", NoView)
            ELSE /\ standups' = WriteLastFacilitator(s, currentFac)
                 /\ \E after \in {GetEligibleUsersForStandup(s, today)} :
                        ret' = Response("RotateFacilitator", s, currentFac, "nil",
                                   StandupView(WriteLastFacilitator(s, currentFac),
                                               s, after))
    /\ UNCHANGED <<standup_members, users, leaves, envVars, calls, schedVars, cycleVars>>

\* -------------------------------------------------------------- scheduler
\* run_at is TEXT; a text is the sequence of its characters.
DigitVal == [ch \in {"0", "1", "2", "3", "4", "5", "6", "7", "8", "9"} |->
                CASE ch = "0" -> 0 [] ch = "1" -> 1 [] ch = "2" -> 2 [] ch = "3" -> 3
                  [] ch = "4" -> 4 [] ch = "5" -> 5 [] ch = "6" -> 6 [] ch = "7" -> 7
                  [] ch = "8" -> 8 [] ch = "9" -> 9]
isDigit(t, i) == i <= Len(t) /\ t[i] \in DOMAIN DigitVal

\* The order of the characters under memcmp: the digits, then the colon.
CharCode(ch) == IF ch \in DOMAIN DigitVal THEN 48 + DigitVal[ch] ELSE 58
RECURSIVE TextLess(_, _)
TextLess(a, b) ==
    IF Len(b) = 0 THEN FALSE
    ELSE IF Len(a) = 0 THEN TRUE
    ELSE IF CharCode(Head(a)) # CharCode(Head(b))
         THEN CharCode(Head(a)) < CharCode(Head(b))
    ELSE TextLess(Tail(a), Tail(b))

NoTime == [ok |-> FALSE, hour |-> 0, minute |-> 0]

\* A parse that checks the shape of the text only.
ParseAnyDigits(t) ==
    IF Len(t) = 5 /\ isDigit(t, 1) /\ isDigit(t, 2) /\ t[3] = ":"
       /\ isDigit(t, 4) /\ isDigit(t, 5)
    THEN [ok |-> TRUE, hour |-> 10 * DigitVal[t[1]] + DigitVal[t[2]],
          minute |-> 10 * DigitVal[t[4]] + DigitVal[t[5]]]
    ELSE [ok |-> FALSE, hour |-> 0, minute |-> 0]

\* time.Parse("15:04", t): the hour is one or two digits below 24, then a
\* colon, then the minute is exactly two digits below 60, then the end.
ParseRunAt(t) ==
    LET hourLen == IF isDigit(t, 2) THEN 2 ELSE 1
        hour    == IF hourLen = 2 THEN 10 * DigitVal[t[1]] + DigitVal[t[2]]
                   ELSE DigitVal[t[1]]
        m       == hourLen + 2
    IN  IF ~isDigit(t, 1) THEN NoTime
        ELSE IF hour >= 24 THEN NoTime
        ELSE IF ~(Len(t) >= hourLen + 1 /\ t[hourLen + 1] = ":") THEN NoTime
        ELSE IF ~(isDigit(t, m) /\ isDigit(t, m + 1)) THEN NoTime
        ELSE IF 10 * DigitVal[t[m]] + DigitVal[t[m + 1]] >= 60 THEN NoTime
        ELSE IF Len(t) > m + 1 THEN NoTime
        ELSE [ok |-> TRUE, hour |-> hour,
              minute |-> 10 * DigitVal[t[m]] + DigitVal[t[m + 1]]]

\* A cron object: its state and its entries, in the order of the AddFunc
\* calls. The package variable is nil until StartScheduler.
NilCron == [state |-> "nil", entries |-> <<>>]
NewCron == [state |-> "new", entries |-> <<>>]
CronAddFunc(cr, e) == [cr EXCEPT !.entries = Append(@, e)]
CronStart(cr) == [cr EXCEPT !.state = "running"]
CronStop(cr) == IF cr.state = "running" THEN [cr EXCEPT !.state = "stopped"] ELSE cr

\* The entry of the leave expiry, "0 0 * * *", and of a standup's reminder.
LeaveExpiryEntry ==
    [job |-> "ExpireLeaves", standup |-> 0, minute |-> 0, hour |-> 0]
ReminderEntry(s, tm) ==
    [job |-> "SendStandupReminder", standup |-> s, minute |-> tm.minute,
     hour |-> tm.hour]

\* GetActiveStandups: the active standups ORDER BY run_at, name; the name
\* of a standup orders as its id.
ActiveBefore(tbl, a, b) ==
    \/ TextLess(tbl[a].run_at, tbl[b].run_at)
    \/ tbl[a].run_at = tbl[b].run_at /\ a < b
RECURSIVE SortStandups(_, _)
SortStandups(tbl, S) ==
    IF S = {} THEN <<>>
    ELSE LET a == CHOOSE x \in S : \A y \in S \ {x} : ActiveBefore(tbl, x, y)
         IN  <<a>> \o SortStandups(tbl, S \ {a})
GetActiveStandups(tbl) == SortStandups(tbl, {s \in StandupIDs : tbl[s].is_active})

\* ScheduleStandup: an entry is added when run_at parses; otherwise the
\* error is logged by the caller and nothing is added.
ScheduleStandup(cr, tbl, s) ==
    LET tm == ParseRunAt(tbl[s].run_at)
    IN  IF tm.ok THEN CronAddFunc(cr, ReminderEntry(s, tm)) ELSE cr

RECURSIVE ScheduleEach(_, _, _)
ScheduleEach(cr, tbl, list) ==
    IF list = <<>> THEN cr
    ELSE ScheduleEach(ScheduleStandup(cr, tbl, Head(list)), tbl, Tail(list))

\* ScheduleAllStandups on the cron cr when the query succeeds.
ScheduleAllStandups(cr, tbl) == ScheduleEach(cr, tbl, GetActiveStandups(tbl))

\* The package variable after StartScheduler and after the part of
\* RefreshScheduler that follows the Stop: a new cron with the leave
\* expiry; when the query of the active standups fails the function
\* returns the error before the Start.
BuildScheduler(tbl, dbOk) ==
    LET cr == CronAddFunc(NewCron, LeaveExpiryEntry)
    IN  IF dbOk THEN CronStart(ScheduleAllStandups(cr, tbl)) ELSE cr

\* The cron objects that still run after the package variable is
\* overwritten: the old one, unless it was stopped.
Orphaned(old) == IF old.state = "running" THEN {old.entries} ELSE {}

SchedErr(dbOk) == IF dbOk THEN "nil" ELSE "failed to schedule standups"

\* StartScheduler, called once by main; on an error main exits.
StartScheduler ==
    /\ main = "starting"
    /\ \E dbOk \in BOOLEAN :
        /\ cronScheduler' = BuildScheduler(standups, dbOk)
        /\ main' = IF dbOk THEN "serving" ELSE "exited"
        /\ ret' = Response("StartScheduler", 0, 0, SchedErr(dbOk), NoView)
    /\ UNCHANGED <<dbVars, calls, orphans, cycleVars>>

\* RefreshScheduler on the store tbl: the scheduler variables after it.
RefreshScheduler(tbl, dbOk) ==
    /\ cronScheduler' = BuildScheduler(tbl, dbOk)
    /\ orphans' = orphans \cup Orphaned(CronStop(cronScheduler))
    /\ UNCHANGED main

\* UPDATE standups SET name = ?, message = ?, run_at = ? WHERE id = ?
UpdateResetsCursor(s, runAt) ==
    [standups EXCEPT ![s].run_at = runAt, ![s].last_facilitator_id = NULL]
UpdateRunAt(s, runAt) == [standups EXCEPT ![s].run_at = runAt]

\* UpdateStandupHandler, first part: UpdateStandup.
UpdateStandupHandler(c, s, runAt, limit) ==
    /\ main = "serving"
    /\ FreeSlot(c, limit)
    /\ \E dbOk \in BOOLEAN :
        IF dbOk
        THEN /\ standups' = UpdateRunAt(s, runAt)
             /\ calls' = [calls EXCEPT ![c] =
                    [NoCall EXCEPT !.op = "UpdateStandup", !.standup = s,
                                   !.pc = "refresh"]]
             /\ UNCHANGED ret
        ELSE /\ UNCHANGED standups
             /\ Return(c, "UpdateStandup", s, 0, "failed")
    /\ UNCHANGED <<standup_members, users, leaves, envVars, schedVars, cycleVars>>

\* DeleteStandupHandler, first part: DeleteStandup (UPDATE standups SET
\* is_active = 0 WHERE id = ?, which matches an inactive standup too).
DeleteStandupHandler(c, s, limit) ==
    /\ main = "serving"
    /\ FreeSlot(c, limit)
    /\ \E dbOk \in BOOLEAN :
        IF dbOk
        THEN /\ standups' = [standups EXCEPT ![s].is_active = FALSE]
             /\ calls' = [calls EXCEPT ![c] =
                    [NoCall EXCEPT !.op = "DeleteStandup", !.standup = s,
                                   !.pc = "refresh"]]
             /\ UNCHANGED ret
        ELSE /\ UNCHANGED standups
             /\ Return(c, "DeleteStandup", s, 0, "failed")
    /\ UNCHANGED <<standup_members, users, leaves, envVars, schedVars, cycleVars>>

\* Both handlers, second part: RefreshScheduler, whose error is only
\* logged, and the response.
HandlerRefresh(c) ==
    LET k == calls[c] IN
    /\ k.pc = "refresh"
    /\ \E refreshOk \in BOOLEAN :
        /\ RefreshScheduler(standups, refreshOk)
        /\ calls' = [calls EXCEPT ![c] = NoCall]
        /\ ret' = [Response(k.op, k.standup, 0, "nil", NoView)
                        EXCEPT !.refresh = SchedErr(refreshOk)]
    /\ UNCHANGED <<dbVars, cycleVars>>

\* RefreshScheduler statement by statement, as another request's refresh can
\* run between any two of them: each statement reads the global
\* cronScheduler afresh, and nothing locks it.
\* if cronScheduler != nil { cronScheduler.Stop() }
RefreshStop(c) ==
    LET k == calls[c] IN
    /\ k.pc = "refresh"
    /\ cronScheduler' = CronStop(cronScheduler)
    /\ calls' = [calls EXCEPT ![c].pc = "refresh_new"]
    /\ UNCHANGED <<dbVars, ret, orphans, main, cycleVars>>

\* cronScheduler = cron.New(): the cron the global held is no longer
\* referenced, and keeps running if it was running.
RefreshNew(c) ==
    LET k == calls[c] IN
    /\ k.pc = "refresh_new"
    /\ cronScheduler' = NewCron
    /\ orphans' = orphans \cup Orphaned(cronScheduler)
    /\ calls' = [calls EXCEPT ![c].pc = "refresh_leave"]
    /\ UNCHANGED <<dbVars, ret, main, cycleVars>>

\* cronScheduler.AddFunc("0 0 * * *", ExpireLeaves)
RefreshAddLeaveExpiry(c) ==
    LET k == calls[c] IN
    /\ k.pc = "refresh_leave"
    /\ cronScheduler' = CronAddFunc(cronScheduler, LeaveExpiryEntry)
    /\ calls' = [calls EXCEPT ![c].pc = "refresh_query"]
    /\ UNCHANGED <<dbVars, ret, orphans, main, cycleVars>>

\* The response of a handler whose refresh ended with refreshErr.
RefreshReturn(c, refreshErr) ==
    LET k == calls[c] IN
    /\ calls' = [calls EXCEPT ![c] = NoCall]
    /\ ret' = [Response(k.op, k.standup, 0, "nil", NoView)
                    EXCEPT !.refresh = refreshErr, !.prevRefresh = ret.refresh]

\* ScheduleAllStandups: GetActiveStandups, whose rows the loop then walks.
RefreshQuery(c) ==
    LET k == calls[c] IN
    /\ k.pc = "refresh_query"
    /\ \E dbOk \in BOOLEAN :
        IF dbOk
        THEN /\ calls' = [calls EXCEPT ![c].pc = "refresh_schedule",
                                       ![c].tbl = standups,
                                       ![c].todo = GetActiveStandups(standups)]
             /\ UNCHANGED ret
        ELSE RefreshReturn(c, SchedErr(FALSE))
    /\ UNCHANGED <<dbVars, schedVars, cycleVars>>

\* ScheduleAllStandups, one turn of the loop: ScheduleStandup of the next
\* row, on the cron the global holds now.
RefreshScheduleNext(c) ==
    LET k == calls[c] IN
    /\ k.pc = "refresh_schedule" /\ k.todo # <<>>
    /\ cronScheduler' = ScheduleStandup(cronScheduler, k.tbl, Head(k.todo))
    /\ calls' = [calls EXCEPT ![c].todo = Tail(k.todo)]
    /\ UNCHANGED <<dbVars, ret, orphans, main, cycleVars>>

\* cronScheduler.Start() and return nil.
RefreshStart(c) ==
    LET k == calls[c] IN
    /\ k.pc = "refresh_schedule" /\ k.todo = <<>>
    /\ cronScheduler' = CronStart(cronScheduler)
    /\ RefreshReturn(c, "nil")
    /\ UNCHANGED <<dbVars, orphans, main, cycleVars>>

RefreshSteps(c) ==
    \/ RefreshStop(c)
    \/ RefreshNew(c)
    \/ RefreshAddLeaveExpiry(c)
    \/ RefreshQuery(c)
    \/ RefreshScheduleNext(c)
    \/ RefreshStart(c)

\* ReactivateStandup: UPDATE standups SET is_active = 1 WHERE id = ?. No
\* handler calls it, and the scheduler is not refreshed.
ReactivateStandup(s) ==
    /\ main = "serving" /\ NoCallRunning
    /\ \E dbOk \in BOOLEAN :
        IF dbOk
        THEN /\ standups' = [standups EXCEPT ![s].is_active = TRUE]
             /\ ret' = Response("ReactivateStandup", s, 0, "nil", NoView)
        ELSE /\ UNCHANGED standups
             /\ ret' = Response("ReactivateStandup", s, 0, "failed", NoView)
    /\ UNCHANGED <<standup_members, users, leaves, envVars, calls, schedVars, cycleVars>>

\* ---------------------------------------------------------- dispatch cycle
\* time.Weekday: Sunday = 0 ... Saturday = 6; NoDay when the clock was not
\* read.
Sunday == 0
Saturday == 6
Weekdays == 0..6
NoDay == 7
IsSaturday(today_) == today_ = Saturday
IsWeekend(today_) == today_ = Saturday \/ today_ = Sunday

\* GetActiveLeavesForStandup: the active leaves that cover today, of the
\* users assigned to the standup, ORDER BY u.display_name.
ActiveLeaveRows(s, now) ==
    {l \in leaves :
        /\ l.user_id \in DOMAIN standup_members[s]
        /\ l.status = "active"
        /\ TextLE(l.start_date, DateText(now))
        /\ TextLE(DateText(now), l.end_date)}
RECURSIVE SortLeaves(_)
SortLeaves(S) ==
    IF S = {} THEN <<>>
    ELSE LET l == CHOOSE x \in S : \A y \in S : ~NameBefore(y.user_id, x.user_id)
         IN  <<l>> \o SortLeaves(S \ {l})
GetActiveLeavesForStandup(s, now) == SortLeaves(ActiveLeaveRows(s, now))

\* The reminder text, by its parts: the standup's name and message, the
\* line of today's facilitator and the line of tomorrow's (absent when
\* NULL), and the list of the users on leave.
NoMessage ==
    [name |-> 0, today |-> NULL, tomorrow |-> NULL, body |-> 0, onLeave |-> <<>>]
ComposeWithPlaceholder(s, currentFacilitator, nextFacilitator, activeLeaves) ==
    [name |-> s, today |-> currentFacilitator,
     tomorrow |-> IF nextFacilitator = NULL THEN currentFacilitator
                  ELSE nextFacilitator,
     body |-> s,
     onLeave |-> [i \in DOMAIN activeLeaves |->
                    <<activeLeaves[i].user_id, activeLeaves[i].leave_type>>]]
ComposeMessage(s, currentFacilitator, nextFacilitator, activeLeaves) ==
    [name |-> s, today |-> currentFacilitator, tomorrow |-> nextFacilitator,
     body |-> s,
     onLeave |-> [i \in DOMAIN activeLeaves |->
                    <<activeLeaves[i].user_id, activeLeaves[i].leave_type>>]]

\* The locals of a SendStandupReminder goroutine, and what it has done:
\* before is the cursor when it started, sendCalls the calls of the
\* delivery client, sendOk the result of the call, wrote the cursor value
\* it has written.
CycleIDs == 1..MaxCycles
NoCycle ==
    [pc |-> "idle", standup |-> 0, trigger |-> "none", weekday |-> NoDay,
     before |-> NULL, gotUsers |-> FALSE, users |-> <<>>,
     last |-> NULL, current |-> NULL, next |-> NULL,
     message |-> NoMessage, sendCalls |-> 0, sendOk |-> FALSE, wrote |-> NULL]
NoFin == [NoCycle EXCEPT !.pc = "none"] @@ [changed |-> FALSE]

CyclesInFlight == {c \in CycleIDs : cycles[c].pc # "idle"}
FreeCycle(c, limit) ==
    /\ cycles[c].pc = "idle"
    /\ \A d \in CycleIDs : d < c => cycles[d].pc # "idle"
    /\ Cardinality(CyclesInFlight) < limit

\* The goroutine starts; with SkipWeekends it reads the clock.
StartCycle(c, s, trigger) ==
    \E wd \in (IF config.SkipWeekends THEN Weekdays ELSE {NoDay}) :
        cycles' = [cycles EXCEPT ![c] =
            [NoCycle EXCEPT !.pc = "check", !.standup = s, !.trigger = trigger,
                            !.weekday = wd,
                            !.before = standups[s].last_facilitator_id]]

\* A goroutine that starts over at the load of the standup after an error.
RetryOnError(c, k, outcome, tbl) ==
    IF outcome = "error"
    THEN /\ cycles' = [cycles EXCEPT ![c] = [k EXCEPT !.pc = "load"]]
         /\ UNCHANGED fin
    ELSE /\ cycles' = [cycles EXCEPT ![c] = NoCycle]
         /\ fin' = [k EXCEPT !.pc = outcome] @@
                   [changed |-> tbl[k.standup].last_facilitator_id # k.before]
\* The goroutine returns with the outcome it has logged.
EndCycle(c, k, outcome, tbl) ==
    /\ cycles' = [cycles EXCEPT ![c] = NoCycle]
    /\ fin' = [k EXCEPT !.pc = outcome] @@
              [changed |-> tbl[k.standup].last_facilitator_id # k.before]

\* A reminder entry of a running cron fires: the job runs in its own
\* goroutine.
TimerFire(c, limit) ==
    /\ FreeCycle(c, limit)
    /\ \E entries \in (IF cronScheduler.state = "running"
                       THEN {cronScheduler.entries} ELSE {}) \cup orphans :
       \E i \in DOMAIN entries :
            /\ entries[i].job = "SendStandupReminder"
            /\ entries[i].standup = EditedStandup
            /\ StartCycle(c, entries[i].standup, "timer")
    /\ UNCHANGED <<dbVars, calls, ret, schedVars, fin>>

\* SendStandupReminderHandler: SendManualStandupReminder starts the
\* goroutine and the request returns.
SendManualStandupReminder(c, s, limit) ==
    /\ main = "serving"
    /\ FreeCycle(c, limit)
    /\ StartCycle(c, s, "manual")
    /\ UNCHANGED <<dbVars, calls, ret, schedVars, fin>>

\* SendStandupReminderHandler with its response: SendManualStandupReminder
\* returns nil once the goroutine k is started, and the handler answers
\* "Reminder sent successfully!".
ReplySkipped(k) ==
    IF config.SkipWeekends /\ IsWeekend(k.weekday) THEN "skipped" ELSE "nil"
ManualReply(k) == "nil"
SendStandupReminderHandler(c, s, limit) ==
    /\ main = "serving"
    /\ FreeCycle(c, limit)
    /\ StartCycle(c, s, "manual")
    /\ ret' = Response("SendStandupReminder", s, 0, ManualReply(cycles'[c]), NoView)
    /\ UNCHANGED <<dbVars, calls, schedVars, fin>>

\* if config.Config.SkipWeekends { today := time.Now().Weekday(); ... }
CheckWeekend(c) ==
    LET k == cycles[c] IN
    /\ k.pc = "check"
    /\ IF config.SkipWeekends /\ IsWeekend(k.weekday)
       THEN EndCycle(c, k, "skipped", standups)
       ELSE /\ cycles' = [cycles EXCEPT ![c].pc = "load", ![c].weekday = NoDay]
            /\ UNCHANGED fin
    /\ UNCHANGED <<dbVars, calls, ret, schedVars>>

\* GetStandupByID, and the check of is_active.
AnyStandup(row) == TRUE
StillActive(row) == row.is_active
LoadStandup(c) ==
    LET k == cycles[c] IN
    /\ k.pc = "load"
    /\ \E dbOk \in BOOLEAN :
        IF ~dbOk THEN EndCycle(c, k, "error", standups)
        ELSE IF ~StillActive(standups[k.standup])
        THEN EndCycle(c, k, "inactive", standups)
        ELSE /\ cycles' = [cycles EXCEPT ![c].pc = "eligible"]
             /\ UNCHANGED fin
    /\ UNCHANGED <<dbVars, calls, ret, schedVars>>

\* GetEligibleUsersForStandup, and the check of len(users) == 0.
NeverEmpty(users_) == FALSE
NoEligibleUsers(users_) == Len(users_) = 0
EligibleUsers(c) ==
    LET k == cycles[c]
        got == [k EXCEPT !.gotUsers = TRUE,
                         !.users = GetEligibleUsersForStandup(k.standup, today)]
    IN
    /\ k.pc = "eligible"
    /\ \E dbOk \in BOOLEAN :
        IF ~dbOk THEN EndCycle(c, k, "error", standups)
        ELSE IF NoEligibleUsers(got.users)
        THEN EndCycle(c, got, "no eligible users", standups)
        ELSE /\ cycles' = [cycles EXCEPT ![c] = [got EXCEPT !.pc = "cursor"]]
             /\ UNCHANGED fin
    /\ UNCHANGED <<dbVars, calls, ret, schedVars>>

\* GetCurrentFacilitator, first query: GetStandupByID; then the error for
\* an empty eligible list. With no cursor the first eligible user is
\* returned at once.
ReadCursor(c) ==
    LET k == cycles[c]
        last == standups[k.standup].last_facilitator_id
    IN
    /\ k.pc = "cursor"
    /\ \E dbOk \in BOOLEAN :
        IF ~dbOk \/ Len(k.users) = 0 THEN EndCycle(c, k, "error", standups)
        ELSE /\ cycles' = [cycles EXCEPT ![c] =
                    IF last = NULL
                    THEN [k EXCEPT !.pc = "next", !.last = last,
                              !.current = GetCurrentFacilitator(last, <<>>, k.users)]
                    ELSE [k EXCEPT !.pc = "members", !.last = last]]
             /\ UNCHANGED fin
    /\ UNCHANGED <<dbVars, calls, ret, schedVars>>

\* GetCurrentFacilitator, second query: GetStandupMembers, and the scan.
ReadMembers(c) ==
    LET k == cycles[c]
        allMembers == GetStandupMembers(standup_members[k.standup])
    IN
    /\ k.pc = "members"
    /\ \E dbOk \in BOOLEAN :
        IF ~dbOk THEN EndCycle(c, k, "error", standups)
        ELSE /\ cycles' = [cycles EXCEPT ![c] =
                    [k EXCEPT !.pc = "next",
                        !.current = GetCurrentFacilitator(k.last, allMembers, k.users)]]
             /\ UNCHANGED fin
    /\ UNCHANGED <<dbVars, calls, ret, schedVars>>

\* GetNextFacilitator; its error is a warning and the line is left out.
NextFacilitator(c) ==
    LET k == cycles[c]
        allMembers == GetStandupMembers(standup_members[k.standup])
    IN
    /\ k.pc = "next"
    /\ \E dbOk \in BOOLEAN :
        cycles' = [cycles EXCEPT ![c] =
            [k EXCEPT !.pc = "leaves",
                      !.next = IF dbOk
                               THEN GetNextFacilitator(allMembers, k.users, k.current)
                               ELSE NULL]]
    /\ UNCHANGED <<dbVars, calls, ret, schedVars, fin>>

\* GetActiveLeavesForStandup (its error is a warning and the list is left
\* out), and the composition of the message.
LeavesErrorReturns(dbOk) == IF dbOk THEN "send" ELSE "error"
AfterLeaves(dbOk) == "send"
ComposeReminder(c) ==
    LET k == cycles[c] IN
    /\ k.pc = "leaves"
    /\ \E dbOk \in BOOLEAN :
        IF AfterLeaves(dbOk) = "send"
        THEN /\ cycles' = [cycles EXCEPT ![c] =
                    [k EXCEPT !.pc = "send",
                        !.message = ComposeMessage(k.standup, k.current, k.next,
                            IF dbOk THEN GetActiveLeavesForStandup(k.standup, today)
                            ELSE <<>>)]]
             /\ UNCHANGED fin
        ELSE EndCycle(c, k, "error", standups)
    /\ UNCHANGED <<dbVars, calls, ret, schedVars>>

\* integrations.SendSimpleMessage: on an error the goroutine returns.
AlwaysAdvance(sendOk) == "advance"
AfterSend(sendOk) == IF sendOk THEN "advance" ELSE "send failed"
SendMessage(c) ==
    LET k == cycles[c] IN
    /\ k.pc = "send"
    /\ \E sendOk \in BOOLEAN :
        LET sent == [k EXCEPT !.sendCalls = 1, !.sendOk = sendOk] IN
        IF AfterSend(sendOk) = "advance"
        THEN /\ cycles' = [cycles EXCEPT ![c] = [sent EXCEPT !.pc = "advance"]]
             /\ UNCHANGED fin
        ELSE EndCycle(c, sent, "send failed", standups)
    /\ UNCHANGED <<dbVars, calls, ret, schedVars>>

\* RotateFacilitator(standupID, currentFacilitator.ID); its error is a
\* warning.
AdvanceToFirst(k) == k.users[1]
AdvanceToNext(k) == k.next
AdvanceTarget(k) == k.current
\* An UPDATE that reports an error after it has written the row.
WrittenAllTheSame(standupID, userID) == WriteLastFacilitator(standupID, userID)
\* The UPDATE of RotateFacilitator failed: the table is as it was and the
\* error is logged.
RotateFacilitatorFails(standupID, userID) == standups
AdvanceCursor(c) ==
    LET k == cycles[c] IN
    /\ k.pc = "advance"
    /\ \E dbOk \in BOOLEAN :
        IF dbOk
        THEN /\ standups' = WriteLastFacilitator(k.standup, AdvanceTarget(k))
             /\ EndCycle(c, [k EXCEPT !.wrote = AdvanceTarget(k)], "completed",
                         standups')
        ELSE /\ standups' = RotateFacilitatorFails(k.standup, AdvanceTarget(k))
             /\ EndCycle(c, k, "completed", standups')
    /\ UNCHANGED <<standup_members, users, leaves, envVars, calls, ret, schedVars>>

\* The steps of the dispatch cycles, at most limit cycles at a time.
CycleSteps(limit) ==
    \/ \E c \in CycleIDs : TimerFire(c, limit)
    \/ \E c \in CycleIDs : SendManualStandupReminder(c, EditedStandup, limit)
    \/ \E c \in CycleIDs : CheckWeekend(c)
    \/ \E c \in CycleIDs : LoadStandup(c)
    \/ \E c \in CycleIDs : EligibleUsers(c)
    \/ \E c \in CycleIDs : ReadCursor(c)
    \/ \E c \in CycleIDs : ReadMembers(c)
    \/ \E c \in CycleIDs : NextFacilitator(c)
    \/ \E c \in CycleIDs : ComposeReminder(c)
    \/ \E c \in CycleIDs : SendMessage(c)
    \/ \E c \in CycleIDs : AdvanceCursor(c)

\* The steps of the cycle c after its start.
CycleProgress(c) ==
    \/ CheckWeekend(c)
    \/ LoadStandup(c)
    \/ EligibleUsers(c)
    \/ ReadCursor(c)
    \/ ReadMembers(c)
    \/ NextFacilitator(c)
    \/ ComposeReminder(c)
    \/ SendMessage(c)
    \/ AdvanceCursor(c)

\* StopScheduler: if cronScheduler != nil { cronScheduler.Stop() }. A call
\* of Stop on a nil *cron.Cron would panic.
NilUnchecked(cr) == TRUE
NotNil(cr) == cr.state # "nil"
StopSchedulerCall ==
    /\ cronScheduler' = IF NotNil(cronScheduler) THEN CronStop(cronScheduler)
                        ELSE cronScheduler
    /\ ret' = Response("StopScheduler", 0, 0,
                       IF NotNil(cronScheduler) /\ cronScheduler.state = "nil"
                       THEN "panic: nil pointer dereference" ELSE "nil",
                       [NoView EXCEPT !.prevOp = ret.op])

\* A call of StopScheduler, in any state of the process.
StopScheduler ==
    /\ main # "exited"
    /\ StopSchedulerCall
    /\ UNCHANGED <<dbVars, calls, orphans, main, cycleVars>>

\* The shutdown goroutine of main after SIGINT or SIGTERM: StopScheduler,
\* then CloseDB and os.Exit(0), which ends every goroutine of the process.
ShutdownStop ==
    /\ main = "serving"
    /\ StopSchedulerCall
    /\ main' = "stopping"
    /\ UNCHANGED <<dbVars, calls, orphans, cycleVars>>

ShutdownExit ==
    /\ main = "stopping"
    /\ main' = "exited"
    /\ cronScheduler' = NilCron
    /\ orphans' = {}
    /\ calls' = [c \in CallIDs |-> NoCall]
    /\ cycles' = [c \in CycleIDs |-> NoCycle]
    /\ UNCHANGED <<dbVars, ret, fin>>

\* ------------------------------------------------------- specifications
\* The rows of a roster in the order of the list q.
RosterOf(q) == InsertAll(q)

\* The run_at texts of the requests: "09:00", "9:30" (which time.Parse
\* accepts), "24:00" and "09:5" (which it rejects).
DefaultRunAt == <<"0", "9", ":", "0", "0">>
RunAtTexts == {DefaultRunAt, <<"9", ":", "3", "0">>,
               <<"2", "4", ":", "0", "0">>, <<"0", "9", ":", "5">>}

\* The store after the migrations and the creation of the users and the two
\* standups: nobody assigned to the edited standup, every user assigned to
\* the other one, no cursor set.
InitStandups ==
    standups = [s \in StandupIDs |->
                    [is_active |-> TRUE, last_facilitator_id |-> NULL,
                     run_at |-> DefaultRunAt]]
\* The process after main has started the scheduler, with no request and
\* no cycle running.
InitServing ==
    /\ calls = [c \in CallIDs |-> NoCall]
    /\ ret = NoRet
    /\ cronScheduler = BuildScheduler(standups, TRUE)
    /\ orphans = {}
    /\ main = "serving"
    /\ cycles = [c \in CycleIDs |-> NoCycle]
    /\ fin = NoFin

InitRest ==
    /\ users = [u \in Users |-> [is_active |-> TRUE]]
    /\ leaves = {}
    /\ today = 0
    /\ rowOrder = [i \in 1..MaxUsers |-> i]
    /\ config = [SkipWeekends |-> TRUE]
    /\ InitServing

BystanderRows == RosterOf([i \in 1..MaxUsers |-> i])

Init ==
    /\ InitStandups
    /\ standup_members =
            [s \in StandupIDs |-> IF s = EditedStandup THEN NoRows ELSE BystanderRows]
    /\ InitRest

\* The roster order calls, at most limit of them at a time.
RosterCalls(limit) ==
    \/ \E c \in CallIDs, s \in {EditedStandup}, ids \in SeqsUpTo(Users, MaxUsers) :
            SetStandupMembers(c, s, ids, limit)
    \/ \E c \in CallIDs, s \in {EditedStandup}, u \in Users :
            RemoveStandupMember(c, s, u, limit)
    \/ \E c \in CallIDs, s \in {EditedStandup}, u \in Users :
            MoveMemberUp(c, s, u, limit)
    \/ \E c \in CallIDs : MoveMemberUpCommit(c)
    \/ \E c \in CallIDs, s \in {EditedStandup}, u \in Users :
            MoveMemberDown(c, s, u, limit)
    \/ \E c \in CallIDs : MoveMemberDownReadMax(c)
    \/ \E c \in CallIDs : MoveMemberDownCommit(c)

\* One call at a time.
Next == RosterCalls(1)
Spec == Init /\ [][Next]_vars

\* Calls of concurrent requests interleave at their store accesses.
NextConc == RosterCalls(MaxCalls)
SpecConc == Init /\ [][NextConc]_vars

\* The member lists of the rosters the roster order calls can build.
Rosters == UNION {Perms(S) : S \in SUBSET Users}

\* The rotation requests, one at a time, on a roster set up beforehand.
InitRotation ==
    /\ InitStandups
    /\ \E q \in Rosters :
            standup_members =
                [s \in StandupIDs |-> IF s = EditedStandup THEN RosterOf(q)
                                      ELSE BystanderRows]
    /\ InitRest

NextRotation ==
    \/ \E u \in Users : SetLastFacilitator(EditedStandup, u)
    \/ \E u \in Users : DeactivateUser(u)
    \/ \E u \in Users : ReactivateUser(u)
    \/ GetStandupWithMembers(EditedStandup)
    \/ RotateFacilitatorHandler(EditedStandup)
SpecRotation == InitRotation /\ [][NextRotation]_vars

\* The scheduler: the process starts on a store left by an earlier run,
\* then serves the standup requests one at a time.
InitSched ==
    /\ \E act \in [StandupIDs -> BOOLEAN], at \in [StandupIDs -> RunAtTexts] :
            standups = [s \in StandupIDs |->
                            [is_active |-> act[s], last_facilitator_id |-> NULL,
                             run_at |-> at[s]]]
    /\ standup_members = [s \in StandupIDs |-> BystanderRows]
    /\ users = [u \in Users |-> [is_active |-> TRUE]]
    /\ leaves = {}
    /\ today = 0
    /\ rowOrder = [i \in 1..MaxUsers |-> i]
    /\ config = [SkipWeekends |-> TRUE]
    /\ calls = [c \in CallIDs |-> NoCall]
    /\ ret = NoRet
    /\ cronScheduler = NilCron
    /\ orphans = {}
    /\ main = "starting"
    /\ cycles = [c \in CycleIDs |-> NoCycle]
    /\ fin = NoFin

NextSched ==
    \/ StartScheduler
    \/ \E c \in CallIDs, s \in StandupIDs, runAt \in RunAtTexts :
            UpdateStandupHandler(c, s, runAt, 1)
    \/ \E c \in CallIDs, s \in StandupIDs : DeleteStandupHandler(c, s, 1)
    \/ \E c \in CallIDs : HandlerRefresh(c)
    \/ \E s \in StandupIDs : ReactivateStandup(s)
SpecSched == InitSched /\ [][NextSched]_vars

\* The dispatch cycles of the edited standup, one at a time, started by
\* its timer and by the manual trigger, on a store set up beforehand: any
\* roster, any of its members deactivated, the weekend policy on or off.
InitDispatch ==
    /\ InitStandups
    /\ \E q \in Rosters :
            standup_members =
                [s \in StandupIDs |-> IF s = EditedStandup THEN RosterOf(q)
                                      ELSE BystanderRows]
    /\ \E act \in [Users -> BOOLEAN] :
            /\ \A u \in Users \ DOMAIN standup_members[EditedStandup] : act[u]
            /\ users = [u \in Users |-> [is_active |-> act[u]]]
    /\ leaves = {}
    /\ today = 0
    /\ rowOrder = [i \in 1..MaxUsers |-> i]
    /\ \E skip \in BOOLEAN : config = [SkipWeekends |-> skip]
    /\ InitServing

NextDispatch == CycleSteps(1)
SpecDispatch == InitDispatch /\ [][NextDispatch]_vars

\* The dispatch cycles of a standup that is deactivated and reactivated
\* while its timer fires and the manual trigger is used.
InitDeactivate ==
    /\ InitStandups
    /\ standup_members = [s \in StandupIDs |-> BystanderRows]
    /\ users = [u \in Users |-> [is_active |-> TRUE]]
    /\ leaves = {}
    /\ today = 0
    /\ rowOrder = [i \in 1..MaxUsers |-> i]
    /\ config = [SkipWeekends |-> FALSE]
    /\ InitServing

NextDeactivate ==
    \/ CycleSteps(1)
    \/ \E c \in CallIDs : DeleteStandupHandler(c, EditedStandup, 1)
    \/ \E c \in CallIDs : HandlerRefresh(c)
    \/ ReactivateStandup(EditedStandup)
SpecDeactivate == InitDeactivate /\ [][NextDeactivate]_vars

\* ------------------------------------------------------------- claims
\* The display_order values of the rows r are exactly 0..N-1, without
\* duplicate (r is one-to-one).
Contiguous(r) ==
    /\ Range(r) = 0..(Cardinality(DOMAIN r) - 1)
    /\ \A u, v \in DOMAIN r : r[u] = r[v] => u = v

\* C1: after any sequence of SetStandupMembers, RemoveStandupMember,
\* MoveMemberUp and MoveMemberDown calls run one at a time, every standup's
\* display_order values are exactly 0..N-1 with no duplicate and no gap.
C1_ContiguousAfterCalls ==
    \A s \in StandupIDs : Contiguous(standup_members[s])

\* A member was removed from the middle of a reordered roster: user 1 was
\* removed and users 3 and 2 remain, in that order.
C1_Witness ==
    /\ ret.op = "RemoveStandupMember" /\ ret.err = "nil" /\ ret.user = 1
    /\ GetStandupMembers(standup_members[EditedStandup]) = <<3, 2>>

\* C9: under any interleaving of concurrent roster order calls on one
\* standup, a reader of the committed rows finds member number i of the
\* list (from 0) at display_order i: no order is missing or duplicated.
C9_ReaderSeesContiguous ==
    \A s \in StandupIDs :
        LET q == GetStandupMembers(standup_members[s]) IN
        \A i \in 1..Len(q) : standup_members[s][q[i]] = i - 1

\* The members in the order a scan anchored at index i meets them: the
\* members after index i, then the members up to index i.
ScanOrder(allMembers, i) ==
    SubSeq(allMembers, i + 1, Len(allMembers)) \o SubSeq(allMembers, 1, i)

\* The first element of the sequence q that is in the set S.
FirstIn(q, S) ==
    q[CHOOSE i \in DOMAIN q : q[i] \in S /\ \A j \in 1..(i - 1) : q[j] \notin S]

\* C2: when the cursor is set and is at index i of the full roster, the
\* current facilitator is the first member, scanning the roster from i+1 to
\* the end and then from the start through i, that is in the eligible set.
C2_CurrentIsFirstEligibleInScan ==
    LET v == ret.view
        i == IndexOf(v.members, v.last) IN
    (/\ ret.op = "GetStandupWithMembers" /\ ret.err = "nil"
     /\ v.last # NULL /\ i # 0
     /\ Range(v.members) \cap Range(v.eligible) # {})
    => v.current = FirstIn(ScanOrder(v.members, i), Range(v.eligible))

\* Roster [1,2,3], cursor 2, only user 1 eligible: the scan skips 3, wraps
\* and gives 1.
C2_Witness ==
    /\ ret.op = "GetStandupWithMembers" /\ ret.err = "nil"
    /\ ret.view.members = <<1, 2, 3>> /\ ret.view.last = 2
    /\ ret.view.eligible = <<1>> /\ ret.view.current = 1

\* C3: after Advance(standup, M) for a roster member M, the current
\* facilitator computed with every roster member eligible is the member
\* right after M in display_order, and the member at order 0 when M is last.
C3_AdvanceThenCurrentIsSuccessor ==
    LET v == ret.view
        i == IndexOf(v.members, v.prevUser) IN
    (/\ ret.op = "GetStandupWithMembers" /\ ret.err = "nil"
     /\ v.prevOp = "SetLastFacilitator" /\ v.prevErr = "nil" /\ i # 0
     /\ Range(v.eligible) = Range(v.members))
    => v.current = v.members[IF i = Len(v.members) THEN 1 ELSE i + 1]

\* Advance to the last member of [2,3,1] (user 1), everybody eligible: the
\* current facilitator wraps to user 2.
C3_Witness ==
    /\ ret.op = "GetStandupWithMembers" /\ ret.err = "nil"
    /\ ret.view.prevOp = "SetLastFacilitator" /\ ret.view.prevUser = 1
    /\ ret.view.members = <<2, 3, 1>> /\ ret.view.last = 1
    /\ Range(ret.view.eligible) = {1, 2, 3} /\ ret.view.current = 2

\* The number of entries of the cron cr that run the job for the standup
\* s (0 for the leave expiry).
EntryCount(cr, job, s) ==
    Cardinality({i \in DOMAIN cr.entries :
                    cr.entries[i].job = job /\ cr.entries[i].standup = s})

\* The timers of the claim C10: the scheduler runs with one leave expiry
\* timer, one reminder timer for each active standup whose run_at parses
\* and none for any other standup, and no cron of an earlier schedule runs.
TimersInPlace ==
    /\ cronScheduler.state = "running"
    /\ EntryCount(cronScheduler, "ExpireLeaves", 0) = 1
    /\ \A s \in StandupIDs :
            EntryCount(cronScheduler, "SendStandupReminder", s) =
                IF standups[s].is_active /\ ParseRunAt(standups[s].run_at).ok
                THEN 1 ELSE 0
    /\ orphans = {}

\* StartScheduler has returned nil, and no request is under way yet.
StartCompleted ==
    /\ ret.op = "StartScheduler"
    /\ main = "serving"
    /\ InFlight = {}

\* The request that returned last is a handler that returned success: it
\* has called RefreshScheduler and the call has returned; no later request
\* is under way.
RefreshCompleted ==
    /\ ret.op \in {"UpdateStandup", "DeleteStandup"}
    /\ ret.err = "nil"
    /\ InFlight = {}

\* C10: after StartScheduler, and after every RefreshScheduler call that
\* completes while no other refresh runs, the timers are in place: one
\* leave expiry timer, one daily timer for each active standup whose run
\* time parses, none for an inactive standup, and no timer of the earlier
\* schedule left able to fire. (Violated: when the query of the active
\* standups fails, RefreshScheduler returns before the Start, and the new
\* scheduler, leave expiry included, never runs.)
C10_TimersInPlaceAfterRefresh ==
    /\ StartCompleted => TimersInPlace
    /\ RefreshCompleted => TimersInPlace

\* The part of C10 the code keeps: the timers are in place after
\* StartScheduler and after each refresh that returned nil.
TimersInPlaceAfterRefreshWithoutError ==
    /\ StartCompleted => TimersInPlace
    /\ (RefreshCompleted /\ ret.refresh = "nil") => TimersInPlace

\* The cycle k stopped before any call of the delivery client and left
\* the cursor as it found it.
NothingSentNothingWritten(k) ==
    k.sendCalls = 0 /\ ~k.changed /\ k.wrote = NULL

\* C4: when the delivery call of a cycle fails, the cycle ends as "send
\* failed" with last_facilitator_id unchanged, and the next cycle of the
\* standup, on the same roster and the same eligible users, computes the
\* same current facilitator.
C4_FailedDeliveryKeepsCursor ==
    /\ (fin.sendCalls = 1 /\ ~fin.sendOk) =>
            fin.pc = "send failed" /\ ~fin.changed /\ fin.wrote = NULL
    /\ \A c \in CycleIDs :
            (/\ fin.sendCalls = 1 /\ ~fin.sendOk
             /\ cycles[c].pc \in {"next", "leaves", "send", "advance"}
             /\ cycles[c].standup = fin.standup
             /\ cycles[c].users = fin.users)
            => cycles[c].current = fin.current

C4_Witness ==
    /\ fin.pc = "send failed" /\ fin.last = 1 /\ fin.current = 2
    /\ cycles[1].pc = "send" /\ cycles[1].current = 2

\* What a cycle has done, in the order of its steps: the facilitator is
\* computed from an eligible list that was read, the message composed names
\* that facilitator, the delivery client is called with a composed
\* message, and the cursor is written after a delivery that succeeded.
StepsInOrder(k) ==
    /\ k.current # NULL => k.gotUsers /\ k.current \in Range(k.users)
    /\ k.message # NoMessage => k.current # NULL /\ k.message.today = k.current
    /\ k.sendCalls = 1 => k.message # NoMessage
    /\ k.sendOk => k.sendCalls = 1
    /\ k.wrote # NULL => k.sendOk /\ k.wrote = k.message.today
    /\ k.pc = "advance" => k.sendOk /\ k.wrote = NULL

\* C5: the steps of a cycle run in the order eligibility, rotation lookup,
\* composition, delivery, cursor advance; the cursor is written at most
\* once in a cycle (by the step that ends it), only after the delivery of
\* that cycle returned success, and the value written is the member the
\* delivered message names as today's facilitator.
C5_CursorWrittenOnceAfterDelivery ==
    /\ [](StepsInOrder(fin) /\ \A c \in CycleIDs : StepsInOrder(cycles[c]))
    /\ [][\A s \in StandupIDs :
            standups'[s].last_facilitator_id # standups[s].last_facilitator_id =>
                \E c \in CycleIDs :
                    /\ cycles[c].pc = "advance" /\ cycles[c].standup = s
                    /\ cycles[c].sendCalls = 1 /\ cycles[c].sendOk
                    /\ cycles[c].wrote = NULL
                    /\ standups'[s].last_facilitator_id = cycles[c].message.today
                    /\ cycles'[c].pc = "idle"
                    /\ fin'.pc = "completed" /\ fin'.changed]_vars

C5_Witness ==
    /\ fin.pc = "completed" /\ fin.sendOk /\ fin.last = 1
    /\ fin.message.today = 2 /\ fin.message.tomorrow = 3 /\ fin.wrote = 2
    /\ standups[EditedStandup].last_facilitator_id = 2

\* C6: with the skip-weekends policy on, a cycle that finds the day to be
\* Saturday or Sunday, whether its timer or the manual trigger started it,
\* ends as skipped: the delivery client is not called and
\* last_facilitator_id is unchanged.
C6_WeekendCycleIsSkipped ==
    /\ [](fin.pc = "skipped" => NothingSentNothingWritten(fin))
    /\ [][\A c \in CycleIDs :
            (/\ cycles[c].pc = "check"
             /\ config.SkipWeekends
             /\ cycles[c].weekday \in {Saturday, Sunday}
             /\ cycles'[c] # cycles[c])
            => /\ cycles'[c].pc = "idle"
               /\ fin'.pc = "skipped" /\ fin'.trigger = cycles[c].trigger
               /\ NothingSentNothingWritten(fin')
               /\ standups' = standups]_vars

C6_Witness ==
    /\ config.SkipWeekends
    /\ fin.pc = "skipped" /\ fin.weekday = Sunday /\ fin.trigger = "manual"
    /\ fin.before = 2 /\ standups[EditedStandup].last_facilitator_id = 2

\* C7: GetCurrentFacilitator returns no facilitator (its error) for an empty
\* eligible list, and a cycle whose eligibility query finds the eligible set
\* empty ends as "no eligible users" without a call of the delivery client
\* and with last_facilitator_id unchanged.
C7_NoEligibleUsersEndsCycle ==
    /\ \A s \in StandupIDs, last \in Users \cup {NULL} :
            GetCurrentFacilitator(last, GetStandupMembers(standup_members[s]),
                                  <<>>) = NULL
    /\ (fin.gotUsers /\ EligibleSet(fin.standup, today) = {}) =>
            fin.pc = "no eligible users" /\ NothingSentNothingWritten(fin)
    /\ \A c \in CycleIDs :
            cycles[c].gotUsers => EligibleSet(cycles[c].standup, today) # {}

C7_Witness ==
    /\ fin.pc = "no eligible users" /\ fin.trigger = "timer"
    /\ GetStandupMembers(standup_members[EditedStandup]) = <<3, 1>>
    /\ ~users[1].is_active /\ ~users[3].is_active /\ users[2].is_active

\* C8: a cycle that loads its standup and finds it inactive, whether a
\* timer that is still registered or the manual trigger started it, ends
\* as inactive: no message is delivered and last_facilitator_id is
\* unchanged. (A cycle whose load fails ends as an error instead.)
C8_InactiveStandupEndsCycle ==
    /\ [](fin.pc = "inactive" => NothingSentNothingWritten(fin))
    /\ [][\A c \in CycleIDs :
            (/\ cycles[c].pc = "load"
             /\ ~standups[cycles[c].standup].is_active
             /\ cycles'[c] # cycles[c])
            => /\ cycles'[c].pc = "idle"
               /\ fin'.pc \in {"inactive", "error"}
               /\ fin'.trigger = cycles[c].trigger
               /\ NothingSentNothingWritten(fin')
               /\ standups' = standups]_vars

C8_Witness ==
    /\ fin.pc = "inactive" /\ fin.trigger = "timer" /\ fin.before = 1
    /\ ~standups[EditedStandup].is_active
    /\ standups[EditedStandup].last_facilitator_id = 1

\* ------------------------------------------- refreshes of concurrent requests
\* The handlers of concurrent requests run in goroutines of their own: the
\* statements of their RefreshScheduler calls interleave. New requests stop
\* arriving once MaxOrphans crons were left running unreferenced.
MaxOrphans == 1

NextRefreshConc ==
    \/ /\ Cardinality(orphans) < MaxOrphans
       /\ \E c \in CallIDs, s \in StandupIDs, runAt \in {DefaultRunAt} :
            UpdateStandupHandler(c, s, runAt, MaxCalls)
    \/ /\ Cardinality(orphans) < MaxOrphans
       /\ \E c \in CallIDs, s \in StandupIDs : DeleteStandupHandler(c, s, MaxCalls)
    \/ \E c \in CallIDs : RefreshSteps(c)
SpecRefreshConc == Init /\ [][NextRefreshConc]_vars

\* The last two requests that returned are handlers whose RefreshScheduler
\* calls returned nil, and no request is under way.
RefreshesCompleted ==
    /\ RefreshCompleted
    /\ ret.refresh = "nil"
    /\ ret.prevRefresh = "nil"

\* C11: RefreshScheduler is atomic with respect to other refreshes: once the
\* refreshes of concurrent requests have returned without error, exactly one
\* scheduler runs, with one reminder timer for each active standup and one
\* leave expiry timer, so that no reminder can fire twice. (Violated: the
\* statements of two refreshes interleave on the package variable, which
\* leaves a cron with every timer twice, or an earlier cron still running.)
C11_RefreshIsAtomic == RefreshesCompleted => TimersInPlace

\* --------------------------------------------- refresh after standup changes
\* The running scheduler's reminder timers are those of the store: a
\* standup has a timer exactly when it is active and its run_at parses, and
\* the timer fires at the hour and minute of its current run_at.
TimersFollowStore ==
    /\ cronScheduler.state = "running"
    /\ \A s \in StandupIDs :
        LET tm == ParseRunAt(standups[s].run_at) IN
        /\ EntryCount(cronScheduler, "SendStandupReminder", s) =
                IF standups[s].is_active /\ tm.ok THEN 1 ELSE 0
        /\ \A i \in DOMAIN cronScheduler.entries :
                cronScheduler.entries[i].standup = s =>
                    /\ cronScheduler.entries[i].hour = tm.hour
                    /\ cronScheduler.entries[i].minute = tm.minute

\* The part that holds: after an update or a deactivation whose refresh
\* returned nil, the timers follow the store.
TimersFollowUpdateAndDelete ==
    (RefreshCompleted /\ ret.refresh = "nil") => TimersFollowStore

\* C12: after an update, a deactivation and a reactivation of a standup has
\* completed, the scheduler has been refreshed: the standups with a timer
\* are the active standups whose run time parses, and each timer uses the
\* current run time. (Violated: ReactivateStandup sets is_active and
\* returns; the scheduler is not refreshed, and the standup has no timer.)
C12_SchedulerFollowsStandupChanges ==
    /\ TimersFollowUpdateAndDelete
    /\ (ret.op = "ReactivateStandup" /\ ret.err = "nil") => TimersFollowStore

\* ------------------------------------------------ cycles and the foreground
\* The last cycle that ended was not ended by a failing store or delivery
\* call, and its cursor write succeeded.
CallsSucceed ==
    /\ fin.pc \notin {"error", "send failed"}
    /\ fin.pc = "completed" => fin.wrote # NULL

\* A cycle of the edited standup runs while the standup is deactivated, the
\* scheduler refreshed and, at shutdown, stopped; one cycle runs at a time.
\* The store and the webhook answer the cycle's calls, and a goroutine that
\* can take a step takes it in the end.
InitInFlight ==
    /\ InitStandups
    /\ standup_members = [s \in StandupIDs |-> BystanderRows]
    /\ users = [u \in Users |-> [is_active |-> TRUE]]
    /\ leaves = {}
    /\ today = 0
    /\ rowOrder = [i \in 1..MaxUsers |-> i]
    /\ config = [SkipWeekends |-> FALSE]
    /\ InitServing

NextInFlight ==
    \/ \E c \in CycleIDs : TimerFire(c, 1)
    \/ \E c \in CycleIDs : SendManualStandupReminder(c, EditedStandup, 1)
    \/ \E c \in CycleIDs : CycleProgress(c) /\ CallsSucceed'
    \/ \E c \in CallIDs : DeleteStandupHandler(c, EditedStandup, 1)
    \/ \E c \in CallIDs : HandlerRefresh(c)
    \/ ShutdownStop
    \/ ShutdownExit
SpecInFlight ==
    /\ InitInFlight
    /\ [][NextInFlight]_vars
    /\ WF_vars(\E c \in CycleIDs : CycleProgress(c) /\ CallsSucceed')

\* The cycle c has passed the check of is_active.
PastActiveCheck(c) ==
    cycles[c].pc \in {"eligible", "cursor", "members", "next", "leaves", "send",
                      "advance"}

InitRace ==
    /\ InitStandups
    /\ standup_members = [s \in StandupIDs |-> BystanderRows]
    /\ users = [u \in Users |-> [is_active |-> TRUE]]
    /\ leaves = {}
    /\ today = 0
    /\ rowOrder = [i \in 1..MaxUsers |-> i]
    /\ config = [SkipWeekends |-> FALSE]
    /\ InitServing

NextRace ==
    \/ /\ standups[EditedStandup].last_facilitator_id = NULL
       /\ \E c \in CycleIDs : TimerFire(c, MaxCycles)
    \/ /\ standups[EditedStandup].last_facilitator_id = NULL
       /\ \E c \in CycleIDs :
                SendManualStandupReminder(c, EditedStandup, MaxCycles)
    \/ \E c \in CycleIDs : CycleProgress(c) /\ CallsSucceed'
SpecRace ==
    /\ InitRace
    /\ [][NextRace]_vars
    /\ WF_vars(\E c \in CycleIDs : CycleProgress(c) /\ CallsSucceed')

\* C14: when the cycles of a manual trigger and of a timer of one standup
\* interleave, each of them ends, and ends only as completed, with the
\* message delivered; every change of a cursor is the
\* write of a cycle that completes, sets the cursor of that cycle's
\* standup to the facilitator that cycle computed from its eligible list,
\* and leaves the other standups' cursors alone; so the cursor is always
\* the value of the cycle that advanced last; the rosters do not change.
C14_LastWriterWins ==
    /\ (\E c \in CycleIDs : cycles[c].pc # "idle") ~>
            (\A c \in CycleIDs : cycles[c].pc = "idle")
    /\ [][\A c \in CycleIDs :
            (cycles[c].pc # "idle" /\ cycles'[c].pc = "idle") =>
                (fin'.pc = "completed" /\ fin'.sendOk)]_vars
    /\ [](fin.pc = "completed" =>
            standups[fin.standup].last_facilitator_id = fin.wrote)
    /\ [][/\ standup_members' = standup_members
          /\ \A s \in StandupIDs :
                standups'[s].last_facilitator_id # standups[s].last_facilitator_id =>
                    /\ fin'.pc = "completed" /\ fin'.standup = s
                    /\ fin'.wrote = fin'.current
                    /\ fin'.current \in Range(fin'.users)
                    /\ standups'[s].last_facilitator_id = fin'.wrote]_vars

\* The timer's cycle has completed and set the cursor while the cycle of a
\* manual trigger, which read the cursor before that write, is about to
\* write too.
C14_Witness ==
    \E c \in CycleIDs :
        /\ cycles[c].pc = "advance" /\ cycles[c].trigger = "manual"
        /\ fin.pc = "completed" /\ fin.trigger = "timer"
        /\ standups[EditedStandup].last_facilitator_id = fin.wrote
        /\ cycles[c].last # standups[EditedStandup].last_facilitator_id

\* ------------------------------------------------------ run times that fail
\* The run_at texts a store can hold: the texts of the requests, and
\* "23:59", "09:60", "0900", "09:000" and ":30".
RunAtSamples ==
    RunAtTexts \cup {<<"2", "3", ":", "5", "9">>, <<"0", "9", ":", "6", "0">>,
                     <<"0", "9", "0", "0">>, <<"0", "9", ":", "0", "0", "0">>,
                     <<":", "3", "0">>}

\* The process starts on a store with any of these run times, then serves
\* deactivations and reactivations, one request at a time.
InitRunAt ==
    /\ \E act \in [StandupIDs -> BOOLEAN], at \in [StandupIDs -> RunAtSamples] :
            standups = [s \in StandupIDs |->
                            [is_active |-> act[s], last_facilitator_id |-> NULL,
                             run_at |-> at[s]]]
    /\ standup_members = [s \in StandupIDs |-> BystanderRows]
    /\ users = [u \in Users |-> [is_active |-> TRUE]]
    /\ leaves = {}
    /\ today = 0
    /\ rowOrder = [i \in 1..MaxUsers |-> i]
    /\ config = [SkipWeekends |-> TRUE]
    /\ calls = [c \in CallIDs |-> NoCall]
    /\ ret = NoRet
    /\ cronScheduler = NilCron
    /\ orphans = {}
    /\ main = "starting"
    /\ cycles = [c \in CycleIDs |-> NoCycle]
    /\ fin = NoFin

NextRunAt ==
    \/ StartScheduler
    \/ \E c \in CallIDs, s \in StandupIDs : DeleteStandupHandler(c, s, 1)
    \/ \E c \in CallIDs : HandlerRefresh(c)
    \/ \E s \in StandupIDs : ReactivateStandup(s)
SpecRunAt == InitRunAt /\ [][NextRunAt]_vars

\* The texts of the times of a 24-hour clock: the hour 0..23 with two
\* digits or with one, a colon, the minute 0..59 with two digits.
DigitChar(d) == <<"0", "1", "2", "3", "4", "5", "6", "7", "8", "9">>[d + 1]
HourTexts(h) ==
    {<<DigitChar(h \div 10), DigitChar(h % 10)>>} \cup
        (IF h < 10 THEN {<<DigitChar(h)>>} ELSE {})
MinuteText(m) == <<":", DigitChar(m \div 10), DigitChar(m % 10)>>
Is24HourTime(t) ==
    /\ Len(t) \in {4, 5}
    /\ \E m \in 0..59 : SubSeq(t, Len(t) - 2, Len(t)) = MinuteText(m)
    /\ \E h \in 0..23 : SubSeq(t, 1, Len(t) - 3) \in HourTexts(h)

InitManual ==
    /\ \E act \in BOOLEAN :
            standups = [s \in StandupIDs |->
                            [is_active |-> IF s = EditedStandup THEN act ELSE TRUE,
                             last_facilitator_id |-> NULL,
                             run_at |-> DefaultRunAt]]
    /\ \E q \in {<<>>, [i \in 1..MaxUsers |-> i]} :
            standup_members =
                [s \in StandupIDs |-> IF s = EditedStandup THEN RosterOf(q)
                                      ELSE BystanderRows]
    /\ users = [u \in Users |-> [is_active |-> TRUE]]
    /\ leaves = {}
    /\ today = 0
    /\ rowOrder = [i \in 1..MaxUsers |-> i]
    /\ \E skip \in BOOLEAN : config = [SkipWeekends |-> skip]
    /\ InitServing

NextManual ==
    \/ \E c \in CycleIDs : TimerFire(c, 1)
    \/ \E c \in CycleIDs : SendStandupReminderHandler(c, EditedStandup, 1)
    \/ \E c \in CycleIDs : CycleProgress(c)
SpecManual == InitManual /\ [][NextManual]_vars

\* C16: the manual trigger returns when the cycle has only been started,
\* and reports that alone: the response is the success response at the
\* start of the cycle, when no outcome exists yet, and no outcome of the
\* cycle (delivered, skipped, standup not loaded or inactive, nobody
\* eligible, delivery failed) changes it.
C16_ManualTriggerReportsInitiationOnly ==
    /\ [](ret.op = "SendStandupReminder" => ret.err = "nil")
    /\ [][(ret' # ret /\ ret'.op = "SendStandupReminder") =>
            /\ fin' = fin
            /\ \E c \in CycleIDs :
                /\ cycles[c].pc = "idle"
                /\ cycles'[c].pc = "check" /\ cycles'[c].trigger = "manual"]_vars
    /\ [][fin' # fin => ret' = ret]_vars

\* The cycle of a manual trigger ended with a failed delivery, and the
\* response of the trigger was the success response.
C16_Witness ==
    /\ fin.trigger = "manual" /\ fin.pc = "send failed"
    /\ ret.op = "SendStandupReminder" /\ ret.err = "nil"
    /\ CyclesInFlight = {}

\* -------------------------------------------------------- StopScheduler
\* StopScheduler is called in every state of the process: before
\* StartScheduler, while requests refresh the scheduler, again after
\* itself, and by the shutdown.
NextStop ==
    \/ StopScheduler
    \/ StartScheduler
    \/ \E c \in CallIDs, s \in StandupIDs : DeleteStandupHandler(c, s, 1)
    \/ \E c \in CallIDs : HandlerRefresh(c)
    \/ \E s \in StandupIDs : ReactivateStandup(s)
    \/ ShutdownStop
    \/ ShutdownExit
SpecStop == InitSched /\ [][NextStop]_vars

\* C17: StopScheduler is safe in every state and idempotent: whenever it
\* was the last call to return, it returned without a panic, and no cron
\* runs, so that no timer can fire; a call that follows another call of it
\* changes nothing.
C17_StopSchedulerIsIdempotent ==
    /\ [](ret.op = "StopScheduler" =>
            /\ ret.err = "nil"
            /\ cronScheduler.state # "running"
            /\ orphans = {})
    /\ [][(ret' # ret /\ ret'.op = "StopScheduler"
                      /\ ret'.view.prevOp = "StopScheduler") =>
            cronScheduler' = cronScheduler]_vars

\* StopScheduler was called twice in a row on a started scheduler with
\* timers, and had been called before the scheduler was created.
C17_Witness ==
    /\ ret.op = "StopScheduler" /\ ret.view.prevOp = "StopScheduler"
    /\ cronScheduler.state = "stopped"
    /\ EntryCount(cronScheduler, "SendStandupReminder", EditedStandup) = 1

\* --------------------------------------------------------------- leaves
\* The days of the calendar, and the leave rows the store holds at most.
MaxDay == 2
MaxLeaves == 2
Days == 0..MaxDay
LeaveIDs == 1..MaxLeaves
\* The users that take leave.
LeaveUsers == {u \in Users : u <= 2}

\* The day of a stored timestamp text, and time.Time's Before.
DayOf(text) == text[1]
Before(d, e) == d < e

\* A leaves row; start_date and end_date are the time.Time values the
\* driver binds, stored as timestamp texts.
LeaveRow(id, u, startDate, endDate, status) ==
    [id |-> id, user_id |-> u, leave_type |-> "leave",
     start_date |-> TimestampText(startDate),
     end_date |-> TimestampText(endDate), status |-> status]

\* UPDATE leaves SET ... WHERE id = ?: the rows after the update, where
\* cols holds the columns that are set.
UpdateLeavesWhereID(id, cols) ==
    {IF l.id = id THEN cols @@ l ELSE l : l \in leaves}
RowsAffected(id) == Cardinality({l \in leaves : l.id = id})
LeaveErr(id, dbOk) ==
    IF ~dbOk THEN "failed" ELSE IF RowsAffected(id) = 0 THEN "leave not found"
    ELSE "nil"

\* CreateLeaveHandler: the dates are validated, then CreateLeave inserts the
\* row with the next id and the status active.
DatesValid(startDate, endDate) == ~Before(endDate, startDate)
CreateLeaveHandler(u, startDate, endDate) ==
    /\ main = "serving"
    /\ Cardinality(leaves) < MaxLeaves
    /\ IF ~DatesValid(startDate, endDate)
       THEN /\ ret' = Response("CreateLeave", 0, 0,
                               "end_date must be after start_date", NoView)
            /\ UNCHANGED leaves
       ELSE \E dbOk \in BOOLEAN :
            /\ leaves' = IF dbOk
                         THEN leaves \cup {LeaveRow(Cardinality(leaves) + 1, u,
                                                    startDate, endDate, "active")}
                         ELSE leaves
            /\ ret' = Response("CreateLeave", 0, 0,
                               IF dbOk THEN "nil" ELSE "failed", NoView)
    /\ UNCHANGED <<standups, standup_members, users, envVars, calls, schedVars,
                   cycleVars>>

\* UpdateLeaveHandler: the dates are parsed, not compared; UpdateLeave sets
\* the dates of the row with the id, whatever its status.
UpdateLeaveHandler(id, startDate, endDate) ==
    /\ main = "serving"
    /\ \E dbOk \in BOOLEAN :
        /\ leaves' = IF dbOk
                     THEN UpdateLeavesWhereID(id,
                            [start_date |-> TimestampText(startDate),
                             end_date |-> TimestampText(endDate)])
                     ELSE leaves
        /\ ret' = Response("UpdateLeave", 0, 0, LeaveErr(id, dbOk), NoView)
    /\ UNCHANGED <<standups, standup_members, users, envVars, calls, schedVars,
                   cycleVars>>

\* CancelLeaveHandler: CancelLeave, UPDATE leaves SET status = 'cancelled'
\* WHERE id = ?.
CancelLeaveHandler(id) ==
    /\ main = "serving"
    /\ \E dbOk \in BOOLEAN :
        /\ leaves' = IF dbOk
                     THEN UpdateLeavesWhereID(id, [status |-> "cancelled"])
                     ELSE leaves
        /\ ret' = Response("CancelLeave", 0, 0, LeaveErr(id, dbOk), NoView)
    /\ UNCHANGED <<standups, standup_members, users, envVars, calls, schedVars,
                   cycleVars>>

\* CompleteLeave: UPDATE leaves SET status = 'completed' WHERE id = ?.
CompleteLeave(id) ==
    /\ main = "serving"
    /\ \E dbOk \in BOOLEAN :
        /\ leaves' = IF dbOk
                     THEN UpdateLeavesWhereID(id, [status |-> "completed"])
                     ELSE leaves
        /\ ret' = Response("CompleteLeave", 0, 0, LeaveErr(id, dbOk), NoView)
    /\ UNCHANGED <<standups, standup_members, users, envVars, calls, schedVars,
                   cycleVars>>

\* ExpireLeaves, the job of the leave expiry timer: ExpireOldLeaves, UPDATE
\* leaves SET status = 'completed' WHERE status = 'active' AND end_date <
\* date('now'). Its error is logged.
ExpireAnyStatus(now) ==
    {IF ~TextLE(DateText(now), l.end_date)
     THEN [l EXCEPT !.status = "completed"] ELSE l : l \in leaves}
ExpireOldLeaves(now) ==
    {IF l.status = "active" /\ ~TextLE(DateText(now), l.end_date)
     THEN [l EXCEPT !.status = "completed"] ELSE l : l \in leaves}
ExpireLeaves ==
    /\ cronScheduler.state = "running"
    /\ \E i \in DOMAIN cronScheduler.entries :
            cronScheduler.entries[i].job = "ExpireLeaves"
    /\ \E dbOk \in BOOLEAN :
        /\ leaves' = IF dbOk THEN ExpireOldLeaves(today) ELSE leaves
        /\ ret' = Response("ExpireLeaves", 0, 0,
                           IF dbOk THEN "nil" ELSE "failed", NoView)
    /\ UNCHANGED <<standups, standup_members, users, envVars, calls, schedVars,
                   cycleVars>>

\* Midnight passes.
NextDay ==
    /\ today < MaxDay
    /\ today' = today + 1
    /\ UNCHANGED <<standups, standup_members, users, leaves, rowOrder, config,
                   calls, ret, schedVars, cycleVars>>

\* The leave requests, the expiry job and the calendar, one at a time, with
\* every user on the rosters.
InitLeaves ==
    /\ InitStandups
    /\ standup_members = [s \in StandupIDs |-> BystanderRows]
    /\ InitRest

NextLeaves ==
    \/ \E u \in LeaveUsers, startDate, endDate \in Days :
            CreateLeaveHandler(u, startDate, endDate)
    \/ \E id \in LeaveIDs, startDate, endDate \in Days :
            UpdateLeaveHandler(id, startDate, endDate)
    \/ \E id \in LeaveIDs : CancelLeaveHandler(id)
    \/ \E id \in LeaveIDs : CompleteLeave(id)
    \/ ExpireLeaves
    \/ NextDay
SpecLeaves == InitLeaves /\ [][NextLeaves]_vars

\* C18: the status of a leave never leaves a terminal state: in every step
\* of the leave operations and the expiry sweep a leave that is completed
\* stays completed and a leave that is cancelled stays cancelled.
\* (Violated: CancelLeave and CompleteLeave update the row whatever its
\* status.)
C18_TerminalStatusIsKept ==
    [][\A l \in leaves :
            l.status \in {"completed", "cancelled"} =>
                \E k \in leaves' : k.id = l.id /\ k.status = l.status]_vars

\* The part that holds: the expiry sweep and UpdateLeave keep every
\* terminal status.
SweepAndUpdateKeepTerminalStatus ==
    [][ret'.op \in {"ExpireLeaves", "UpdateLeave", "CreateLeave"} =>
        \A l \in leaves :
            l.status \in {"completed", "cancelled"} =>
                \E k \in leaves' : k.id = l.id /\ k.status = l.status]_vars

\* C19: every stored leave has end_date >= start_date. (Violated:
\* UpdateLeaveHandler does not compare the dates.)
C19_EndNotBeforeStart ==
    \A l \in leaves : ~Before(DayOf(l.end_date), DayOf(l.start_date))

\* The part that holds: leaves are created with end_date >= start_date,
\* and a create request with the end before the start changes nothing.
CreateKeepsEndNotBeforeStart ==
    [][ret'.op = "CreateLeave" =>
            /\ \A l \in leaves' \ leaves :
                    ~Before(DayOf(l.end_date), DayOf(l.start_date))
            /\ ret'.err # "nil" => leaves' = leaves]_vars

\* The roster members of the standup s that are active and have no active
\* leave whose days start_date..end_date contain the day now.
EligibleByDay(s, now) ==
    {u \in DOMAIN standup_members[s] :
        /\ users[u].is_active
        /\ ~\E l \in leaves :
                /\ l.user_id = u /\ l.status = "active"
                /\ DayOf(l.start_date) <= now /\ now <= DayOf(l.end_date)}

\* The part that holds: the two sets agree on every day on which no active
\* leave starts.
EligibleAgreesUnlessLeaveStartsToday ==
    (\A l \in leaves : l.status = "active" => DayOf(l.start_date) # today) =>
        \A s \in StandupIDs :
            Range(GetEligibleUsersForStandup(s, today)) = EligibleByDay(s, today)

\* C20: the eligible users of a standup are its roster members that are
\* active and have no active leave covering today, both bounds inclusive.
\* (Violated: the stored start_date, a timestamp text, compares greater
\* than date('now') on the day the leave starts.)
C20_EligibleIsNotOnLeaveToday ==
    \A s \in StandupIDs :
        Range(GetEligibleUsersForStandup(s, today)) = EligibleByDay(s, today)

\* ------------------------------------------------------- the expiry sweep
\* Leaves are created and cancelled, the expiry job runs and the days pass.
\* One user takes the leaves, and every leave starts on day 0: the sweep
\* reads the status and the end_date only.
NextSweep ==
    \/ \E endDate \in Days : CreateLeaveHandler(1, 0, endDate)
    \/ \E id \in LeaveIDs : CancelLeaveHandler(id)
    \/ ExpireLeaves
    \/ NextDay
SpecSweep == InitLeaves /\ [][NextSweep]_vars

\* C21: a run of the leave expiry sweep that succeeds sets to completed
\* exactly the leaves that are active with an end_date strictly before
\* today; an active leave that ends today or later, and a leave that is
\* completed or cancelled already, is left as it was; no row is added or
\* dropped.
C21_SweepCompletesEndedActiveLeaves ==
    [][(ExpireLeaves /\ ret'.err = "nil") =>
        /\ Cardinality(leaves') = Cardinality(leaves)
        /\ \A l \in leaves :
            IF l.status = "active" /\ DayOf(l.end_date) < today
            THEN [l EXCEPT !.status = "completed"] \in leaves'
            ELSE l \in leaves']_vars

\* The sweep has run on day 1 or later: the leave that ended before today
\* is completed, and the leave that ends today is still active.
C21_Witness ==
    /\ ret.op = "ExpireLeaves" /\ ret.err = "nil"
    /\ \E l \in leaves : l.status = "completed" /\ DayOf(l.end_date) < today
    /\ \E l \in leaves : l.status = "active" /\ DayOf(l.end_date) = today

\* ------------------------------------------------------- the unset cursor
\* C22: when last_facilitator_id is unset and some member is eligible, the
\* current facilitator is the eligible member with the smallest
\* display_order of the full roster, whatever the order of the eligible
\* list. (Violated: GetCurrentFacilitator returns the first element of the
\* eligible list, which the store yields in an order of its own.)
C22_UnsetCursorGivesFirstOfRoster ==
    LET v == ret.view IN
    (/\ ret.op = "GetStandupWithMembers" /\ ret.err = "nil"
     /\ v.last = NULL /\ Len(v.eligible) > 0)
    => v.current = FirstIn(v.members, Range(v.eligible))

\* The part that holds: with the cursor unset the current facilitator is
\* the first element of the eligible list as it was passed in.
UnsetCursorGivesFirstOfEligibleList ==
    LET v == ret.view IN
    (/\ ret.op = "GetStandupWithMembers" /\ ret.err = "nil"
     /\ v.last = NULL /\ Len(v.eligible) > 0)
    => v.current = v.eligible[1]

\* ------------------------------------------- the roster and the rotation
\* The roster order calls, the advance of the cursor and the view of the
\* standup, one request at a time, starting with nobody assigned to the
\* edited standup.
NextReorder ==
    \/ RosterCalls(1)
    \/ \E u \in Users : SetLastFacilitator(EditedStandup, u)
    \/ GetStandupWithMembers(EditedStandup)
    \/ RotateFacilitatorHandler(EditedStandup)
SpecReorder == Init /\ [][NextReorder]_vars

\* What GetCurrentFacilitator returns for the standup s on the store as it
\* is, for the eligible users the store yields.
CurrentOf(s) ==
    GetCurrentFacilitator(standups[s].last_facilitator_id,
                          GetStandupMembers(standup_members[s]),
                          GetEligibleUsersForStandup(s, today))

\* C23: a step that is no Advance (no cursor is written) and keeps the set
\* of eligible users of a standup keeps the member GetCurrentFacilitator
\* returns for it, so that two calls with no Advance in between return the
\* same member, roster order operations in between included. (Violated: a
\* reordered roster has another member behind the cursor.)
C23_CurrentKeptWithoutAdvance ==
    [][\A s \in StandupIDs :
        (/\ standups' = standups
         /\ EligibleSet(s, today)' = EligibleSet(s, today))
        => CurrentOf(s)' = CurrentOf(s)]_vars

\* ------------------------------------------------------ roster call frames
\* A step in which a roster call returns: the response, the rows or the
\* slot of a call change.
CallReturns ==
    \/ ret' # ret
    \/ standup_members' # standup_members
    \/ \E c \in CallIDs : calls[c].pc # "idle" /\ calls'[c].pc = "idle"

\* C24: MoveMemberUp for the member at display_order 0, MoveMemberDown for
\* the member at the maximum display_order, and either call for a user that
\* is not on the roster return an error and leave every roster entry as it
\* was.
C24_MoveAtTheEdgeFails ==
    [][\A s \in StandupIDs, u \in Users :
        LET r == standup_members[s] IN
        (/\ CallReturns
         /\ ret'.op \in {"MoveMemberUp", "MoveMemberDown"}
         /\ ret'.standup = s /\ ret'.user = u
         /\ \/ u \notin DOMAIN r
            \/ ret'.op = "MoveMemberUp" /\ r[u] = 0
            \/ ret'.op = "MoveMemberDown" /\ \A v \in DOMAIN r : r[v] <= r[u])
        => /\ ret'.err # "nil"
           /\ standup_members' = standup_members]_vars

\* MoveMemberDown was refused for the last of three members.
C24_Witness ==
    /\ ret.op = "MoveMemberDown" /\ ret.err = "member is already at the bottom"
    /\ ret.user \in DOMAIN standup_members[EditedStandup]
    /\ standup_members[EditedStandup][ret.user] = 2
    /\ Cardinality(DOMAIN standup_members[EditedStandup]) = 3

\* The list q without the element u.
RECURSIVE Without(_, _)
Without(q, u) ==
    IF q = <<>> THEN <<>>
    ELSE IF Head(q) = u THEN Without(Tail(q), u)
    ELSE <<Head(q)>> \o Without(Tail(q), u)

\* C25: RemoveStandupMember for a user on the roster, when it returns nil,
\* has deleted that entry and decremented by one the display_order of
\* exactly the entries that had a greater order, so that the remaining
\* members are listed in the order they had; when it fails the roster is
\* as it was; for a user not on the roster it returns "member not found"
\* and changes no entry. The other standups' rosters are never touched.
C25_RemoveClosesTheGap ==
    [][\A s \in StandupIDs, u \in Users :
        LET r == standup_members[s]
            after == standup_members'[s] IN
        (/\ CallReturns
         /\ ret'.op = "RemoveStandupMember"
         /\ ret'.standup = s /\ ret'.user = u)
        => /\ \A t \in StandupIDs \ {s} : standup_members'[t] = standup_members[t]
           /\ IF u \notin DOMAIN r
              THEN ret'.err = "member not found" /\ after = r
              ELSE IF ret'.err # "nil" THEN after = r
              ELSE /\ DOMAIN after = DOMAIN r \ {u}
                   /\ \A v \in DOMAIN after :
                        after[v] = IF r[v] > r[u] THEN r[v] - 1 ELSE r[v]
                   /\ GetStandupMembers(after) =
                        Without(GetStandupMembers(r), u)]_vars

\* User 2 was removed from the middle of the roster [3, 2, 1]: user 3 is
\* still at order 0 and user 1 has moved from order 2 to order 1.
C25_Witness ==
    /\ ret.op = "RemoveStandupMember" /\ ret.err = "nil" /\ ret.user = 2
    /\ standup_members[EditedStandup] = RosterOf(<<3, 1>>)

\* C26: SetStandupMembers with a list of distinct user ids, when it returns
\* nil, has replaced the whole roster: the roster holds exactly the users of
\* the list, the user at position k of the list (from 0) has display_order
\* k, and no other entry of the previous roster remains; when it fails the
\* roster is as it was. The other standups' rosters are never touched.
C26_SetMembersReplacesTheRoster ==
    [][\A s \in StandupIDs :
        LET r == standup_members[s]
            after == standup_members'[s]
            userIDs == ret'.list IN
        (/\ CallReturns
         /\ ret'.op = "SetStandupMembers" /\ ret'.standup = s)
        => /\ \A t \in StandupIDs \ {s} : standup_members'[t] = standup_members[t]
           /\ IF ret'.err # "nil" THEN after = r
              ELSE IsInjective(userIDs) =>
                   /\ DOMAIN after = Range(userIDs)
                   /\ \A k \in DOMAIN userIDs : after[userIDs[k]] = k - 1
                   /\ GetStandupMembers(after) = userIDs]_vars

\* The roster [1, 2, 3] was replaced by the list [3, 1]: user 2 is gone,
\* user 3 is at order 0 and user 1 at order 1.
C26_Witness ==
    /\ ret.op = "SetStandupMembers" /\ ret.err = "nil"
    /\ DOMAIN standup_members[EditedStandup] = {1, 3}
    /\ standup_members[EditedStandup][3] = 0
    /\ standup_members[EditedStandup][1] = 1

\* ------------------------------------------------------------- appending
\* The roster order calls and AddStandupMember, one call at a time.
NextAppend ==
    \/ RosterCalls(1)
    \/ \E u \in Users : AddStandupMember(EditedStandup, u)
SpecAppend == Init /\ [][NextAppend]_vars

\* C27: AddStandupMember for a user who is not on the roster, on a roster
\* of N members with the orders 0..N-1, puts the user at the end of the
\* member list and leaves the display_order values exactly 0..N without
\* duplicate. (Violated: the row is inserted with the default order 0.)
C27_AppendGoesToTheEnd ==
    [][\A s \in StandupIDs, u \in Users :
        LET r == standup_members[s]
            after == standup_members'[s] IN
        (/\ CallReturns
         /\ ret'.op = "AddStandupMember" /\ ret'.err = "nil"
         /\ ret'.standup = s /\ ret'.user = u
         /\ u \notin DOMAIN r /\ Contiguous(r))
        => /\ Contiguous(after)
           /\ GetStandupMembers(after) = Append(GetStandupMembers(r), u)]_vars

\* The part that holds: the call adds the row of the user and changes no
\* other row, and for a user on the roster already it changes nothing.
AppendAddsOneRow ==
    [][\A s \in StandupIDs, u \in Users :
        LET r == standup_members[s]
            after == standup_members'[s] IN
        (/\ CallReturns
         /\ ret'.op = "AddStandupMember" /\ ret'.err = "nil"
         /\ ret'.standup = s /\ ret'.user = u)
        => /\ DOMAIN after = DOMAIN r \cup {u}
           /\ \A v \in DOMAIN r : after[v] = r[v]
           /\ \A t \in StandupIDs \ {s} : standup_members'[t] = standup_members[t]]_vars

\* ------------------------------------------------------------ the cursor
\* Every kind of operation on the store, one at a time. The roster calls,
\* the standup requests and the leave requests with the expiry job and the
\* days are each made on a store the other two kinds have left as it was
\* at the start, and before the dispatch cycle; one dispatch cycle of the
\* edited standup runs, on a store without leaves; the request that
\* advances the cursor comes at any time.
Quiet == InFlight = {} /\ CyclesInFlight = {}
RosterPlain == standup_members[EditedStandup] = BystanderRows
RowPlain ==
    /\ standups[EditedStandup].is_active
    /\ standups[EditedStandup].run_at = DefaultRunAt
LeavesPlain == leaves = {} /\ today = 0
CyclePlain == fin = NoFin

RosterSide == Quiet /\ RowPlain /\ LeavesPlain /\ CyclePlain
RowSide == Quiet /\ RosterPlain /\ LeavesPlain /\ CyclePlain
LeavesSide == Quiet /\ RosterPlain /\ RowPlain /\ CyclePlain

NextFrame ==
    \/ Quiet /\ \E u \in {1, 2} : SetLastFacilitator(EditedStandup, u)
    \/ RosterSide /\ \E c \in CallIDs, ids \in {<<>>, <<2, 1>>} :
            SetStandupMembers(c, EditedStandup, ids, 1)
    \/ RosterSide /\ \E c \in CallIDs : RemoveStandupMember(c, EditedStandup, 1, 1)
    \/ RosterSide /\ AddStandupMember(EditedStandup, 1)
    \/ RosterSide /\ \E c \in CallIDs : MoveMemberUp(c, EditedStandup, 2, 1)
    \/ \E c \in CallIDs : MoveMemberUpCommit(c)
    \/ RosterSide /\ \E c \in CallIDs : MoveMemberDown(c, EditedStandup, 2, 1)
    \/ \E c \in CallIDs : MoveMemberDownReadMax(c)
    \/ \E c \in CallIDs : MoveMemberDownCommit(c)
    \/ RowSide /\ \E c \in CallIDs :
            UpdateStandupHandler(c, EditedStandup, <<"9", ":", "3", "0">>, 1)
    \/ RowSide /\ \E c \in CallIDs : DeleteStandupHandler(c, EditedStandup, 1)
    \/ \E c \in CallIDs : HandlerRefresh(c)
    \/ Quiet /\ RosterPlain /\ LeavesPlain /\ CyclePlain
             /\ ReactivateStandup(EditedStandup)
    \/ LeavesSide /\ CreateLeaveHandler(1, 0, 0)
    \/ LeavesSide /\ UpdateLeaveHandler(1, 0, 1)
    \/ LeavesSide /\ CancelLeaveHandler(1)
    \/ LeavesSide /\ CompleteLeave(1)
    \/ LeavesSide /\ ExpireLeaves
    \/ LeavesSide /\ NextDay
    \/ InFlight = {} /\ LeavesPlain /\ CyclePlain /\ CycleSteps(1)
SpecFrame == InitLeaves /\ [][NextFrame]_vars


\* C28: last_facilitator_id of a standup is changed only by an Advance:
\* the step that changes it is either SetLastFacilitator returning nil for
\* that standup, which sets the cursor to the user of the request and
\* changes nothing else in the store, or the advance step of a dispatch
\* cycle of that standup, which writes the facilitator the cycle computed
\* after the message was delivered. The roster calls, the standup update,
\* deactivation and reactivation, the scheduler refresh, the leave
\* requests, the expiry sweep and a dispatch cycle that ends before its
\* advance step leave every cursor as it was.
C28_OnlyAdvanceWritesTheCursor ==
    [][\A s \in StandupIDs :
        standups'[s].last_facilitator_id # standups[s].last_facilitator_id =>
            \/ /\ ret'.op = "SetLastFacilitator" /\ ret'.err = "nil"
               /\ ret'.standup = s
               /\ standups'[s].last_facilitator_id = ret'.user
               /\ UNCHANGED <<standup_members, users, leaves, calls, cycles, fin>>
            \/ \E c \in CycleIDs :
                /\ cycles[c].pc = "advance" /\ cycles[c].standup = s
                /\ cycles[c].sendOk
                /\ cycles'[c].pc = "idle" /\ fin'.pc = "completed"
                /\ standups'[s].last_facilitator_id = cycles[c].current
                /\ UNCHANGED <<standup_members, users, leaves, calls, ret>>]_vars

\* The cursor of the edited standup was set to user 2; then the standup was
\* deactivated and its scheduler refreshed, and a dispatch cycle ended at
\* the check of is_active: the cursor is still user 2.
C28_Witness ==
    /\ ret.op = "DeleteStandup" /\ ret.err = "nil"
    /\ fin.pc = "inactive" /\ fin.standup = EditedStandup
    /\ ~standups[EditedStandup].is_active
    /\ standups[EditedStandup].last_facilitator_id = 2


\* The cursor and the members it can lose: the cursor is set, members are
\* removed, the roster is replaced by a list that drops the cursor's user,
\* user 1 is deactivated, and the standup is viewed, one request at a time
\* on a roster set up beforehand.
NextMissing ==
    \/ \E u \in Users : SetLastFacilitator(EditedStandup, u)
    \/ \E c \in CallIDs, u \in Users : RemoveStandupMember(c, EditedStandup, u, 1)
    \/ \E c \in CallIDs,
           ids \in {q \in Rosters :
                    /\ Len(q) = MaxUsers - 1
                    /\ standups[EditedStandup].last_facilitator_id \notin Range(q)} :
            SetStandupMembers(c, EditedStandup, ids, 1)
    \/ DeactivateUser(1)
    \/ GetStandupWithMembers(EditedStandup)
SpecMissing == InitRotation /\ [][NextMissing]_vars

\* C29: when last_facilitator_id references a user who is not on the
\* standup's roster any more and some member is eligible,
\* GetCurrentFacilitator returns what it returns for an unset cursor: the
\* first user of the eligible list.
C29_MissingCursorIsTreatedAsUnset ==
    LET v == ret.view IN
    (/\ ret.op = "GetStandupWithMembers" /\ ret.err = "nil"
     /\ v.last # NULL /\ v.last \notin Range(v.members)
     /\ Len(v.eligible) > 0)
    => /\ v.current = GetCurrentFacilitator(NULL, v.members, v.eligible)
       /\ v.current = v.eligible[1]

\* The cursor is user 2, who was taken off the roster; the roster is
\* [1, 3], both eligible, and the current facilitator is user 1, not the
\* member behind any position of the roster.
C29_Witness ==
    /\ ret.op = "GetStandupWithMembers" /\ ret.err = "nil"
    /\ ret.view.last = 2 /\ ret.view.members = <<1, 3>>
    /\ ret.view.eligible = <<1, 3>> /\ ret.view.current = 1
    /\ ret.view.prevOp \in {"RemoveStandupMember", "SetStandupMembers"}


\* ------------------------------------------------------------ the swaps
\* MoveMemberUp and MoveMemberDown, one call at a time, on a roster set up
\* beforehand and with the cursor set by SetLastFacilitator.
NextSwap ==
    \/ \E u \in Users : SetLastFacilitator(EditedStandup, u)
    \/ \E c \in CallIDs, u \in Users : MoveMemberUp(c, EditedStandup, u, 1)
    \/ \E c \in CallIDs : MoveMemberUpCommit(c)
    \/ \E c \in CallIDs, u \in Users : MoveMemberDown(c, EditedStandup, u, 1)
    \/ \E c \in CallIDs : MoveMemberDownReadMax(c)
    \/ \E c \in CallIDs : MoveMemberDownCommit(c)
SpecSwap == InitRotation /\ [][NextSwap]_vars

\* C30: a MoveMemberUp that returns nil has exchanged the display_order of
\* the member with that of the entry one order above it, and a
\* MoveMemberDown that returns nil with that of the entry one order below
\* it; every other entry of the roster, the roster's membership, the other
\* standups' rosters and every last_facilitator_id are as they were.
C30_MoveSwapsWithTheNeighbour ==
    [][\A s \in StandupIDs, u \in Users :
        LET r == standup_members[s]
            after == standup_members'[s]
            d == IF ret'.op = "MoveMemberUp" THEN 0 - 1 ELSE 1 IN
        (/\ CallReturns
         /\ ret'.op \in {"MoveMemberUp", "MoveMemberDown"} /\ ret'.err = "nil"
         /\ ret'.standup = s /\ ret'.user = u)
        => /\ u \in DOMAIN r /\ DOMAIN after = DOMAIN r
           /\ after[u] = r[u] + d
           /\ \E v \in DOMAIN r \ {u} :
                /\ r[v] = r[u] + d /\ after[v] = r[u]
                /\ \A w \in DOMAIN r \ {u, v} : after[w] = r[w]
           /\ \A t \in StandupIDs \ {s} : standup_members'[t] = standup_members[t]
           /\ standups' = standups]_vars

\* With the cursor at user 2, user 3 was moved up from the end of
\* [1, 2, 3]: the roster is [1, 3, 2] and the cursor is still user 2.
C30_Witness ==
    /\ ret.op = "MoveMemberUp" /\ ret.err = "nil" /\ ret.user = 3
    /\ GetStandupMembers(standup_members[EditedStandup]) = <<1, 3, 2>>
    /\ standups[EditedStandup].last_facilitator_id = 2


\* ------------------------------------------------- leaves and the roster
\* User 2 takes leave and then a cycle of the edited standup runs: leaves
\* are created and cancelled, the expiry job runs, the days pass and the
\* cursor is advanced by request, one at a time, and then the timer fires
\* or the manual trigger is used. Every user is on the roster, in the order
\* of the ids.
NextSkip ==
    \/ Quiet /\ CyclePlain /\ \E endDate \in {0, MaxDay} :
            CreateLeaveHandler(2, 0, endDate)
    \/ Quiet /\ CyclePlain /\ \E id \in LeaveIDs : CancelLeaveHandler(id)
    \/ Quiet /\ CyclePlain /\ ExpireLeaves
    \/ Quiet /\ CyclePlain /\ NextDay
    \/ Quiet /\ CyclePlain /\ \E u \in {1, 2} : SetLastFacilitator(EditedStandup, u)
    \/ CyclePlain /\ CycleSteps(1)
SpecSkip == InitLeaves /\ [][NextSkip]_vars

\* C31: no step of a dispatch cycle, no Advance, no leave creation, leave
\* cancellation or expiry sweep changes a row of a roster: every member,
\* on leave or not, keeps its display_order; and the scan of a cycle is
\* anchored at the cursor's position in that full roster, also when the
\* member the cursor names is on leave and so not in the eligible list.
C31_LeaveKeepsTheRosterPosition ==
    /\ [][standup_members' = standup_members]_vars
    /\ [](\A c \in CycleIDs :
            LET k == cycles[c]
                allMembers == GetStandupMembers(standup_members[k.standup])
                i == IndexOf(allMembers, k.last) IN
            (k.pc \in {"next", "leaves", "send", "advance"} /\ k.last # NULL) =>
                k.current = FirstIn(ScanOrder(allMembers, i), Range(k.users)))

\* On day 1 user 2, whom the cursor names, is on leave and user 3 was taken:
\* the cycle scanned the roster from the position of user 2, which is not in
\* its eligible list.
C31_Witness ==
    /\ today = 1 /\ OnLeave(2, today)
    /\ standup_members[EditedStandup] = BystanderRows
    /\ \E c \in CycleIDs :
        /\ cycles[c].pc = "send" /\ cycles[c].last = 2
        /\ cycles[c].users = <<1, 3>> /\ cycles[c].current = 3


\* ------------------------------------------------------------ the preview
\* C32: the step of a cycle that computes the next facilitator writes
\* nothing to the store; and when the cycle that ended last delivered its
\* message and advanced the cursor, the current facilitator of the cycle
\* that follows it on the same standup, with the same roster and the same
\* eligible list, is the next facilitator the ended cycle had computed.
C32_PreviewIsTheNextCurrent ==
    /\ [][\A c \in CycleIDs :
            (cycles[c].pc = "next" /\ cycles'[c] # cycles[c]) =>
                /\ cycles'[c].pc = "leaves"
                /\ UNCHANGED <<standups, standup_members, users, leaves>>]_vars
    /\ [](\A c \in CycleIDs :
            LET k == cycles[c] IN
            (/\ fin.pc = "completed" /\ fin.sendOk /\ fin.wrote # NULL
             /\ fin.next # NULL
             /\ k.pc \in {"next", "leaves", "send", "advance"}
             /\ k.standup = fin.standup
             /\ k.users = fin.users)
            => k.current = fin.next)

\* The cycle that ended named user 3, the last of the roster [2, 1, 3], for
\* today and user 2 for tomorrow; the cycle after it names user 2 for today.
C32_Witness ==
    /\ GetStandupMembers(standup_members[EditedStandup]) = <<2, 1, 3>>
    /\ fin.pc = "completed" /\ fin.wrote = 3 /\ fin.next = 2
    /\ \E c \in CycleIDs :
        /\ cycles[c].pc = "send" /\ cycles[c].last = 3 /\ cycles[c].current = 2
        /\ cycles[c].users = fin.users


\* ------------------------------------------------- store failures in a cycle
\* The position of a step in SendStandupReminder.
PcRank(pc) ==
    CASE pc = "check" -> 1 [] pc = "load" -> 2 [] pc = "eligible" -> 3
      [] pc = "cursor" -> 4 [] pc = "members" -> 5 [] pc = "next" -> 6
      [] pc = "leaves" -> 7 [] pc = "send" -> 8 [] pc = "advance" -> 9
      [] OTHER -> 10

\* C33: a cycle whose GetStandupByID, GetEligibleUsersForStandup or
\* GetCurrentFacilitator call fails ends at that step as an error: it has
\* composed no message and called the delivery client never, the cursor is
\* as the cycle found it, the cycle runs no step a second time and starts
\* no other cycle, and the scheduler keeps the standup's timer, which can
\* fire again.
C33_StoreFailureEndsTheCycle ==
    /\ [](fin.pc = "error" =>
            /\ NothingSentNothingWritten(fin)
            /\ fin.message = NoMessage
            /\ cronScheduler.state = "running"
            /\ EntryCount(cronScheduler, "SendStandupReminder", fin.standup) = 1)
    /\ [][\A c \in CycleIDs :
            (cycles[c].pc # "idle" /\ cycles'[c] # cycles[c]) =>
                /\ PcRank(cycles'[c].pc) > PcRank(cycles[c].pc)
                /\ (cycles'[c].pc = "idle" /\ fin'.pc = "error") =>
                    /\ cycles[c].pc \in {"load", "eligible", "cursor", "members"}
                    /\ cycles' = [cycles EXCEPT ![c] = NoCycle]
                    /\ UNCHANGED <<standups, standup_members, users, leaves,
                                   cronScheduler, orphans>>]_vars

\* The cursor was 1; a cycle of the timer failed at a store call before any
\* delivery and left it at 1, and the timer has fired again: the new cycle
\* has computed user 2.
C33_Witness ==
    /\ fin.pc = "error" /\ fin.trigger = "timer" /\ fin.before = 1
    /\ fin.gotUsers /\ fin.sendCalls = 0
    /\ standups[EditedStandup].last_facilitator_id = 1
    /\ \E c \in CycleIDs :
        /\ cycles[c].pc = "send" /\ cycles[c].trigger = "timer"
        /\ cycles[c].current = 2


\* ---------------------------------------------- the leave lookup that fails
\* The entries of the on-leave list for the leaves the store returns.
LeaveEntries(activeLeaves) ==
    [i \in DOMAIN activeLeaves |->
        <<activeLeaves[i].user_id, activeLeaves[i].leave_type>>]

\* C34: the step of a cycle that loads the active leaves never ends the
\* cycle: whether the lookup fails or not the cycle goes on to the delivery
\* with a message that names the facilitators it had computed, with the
\* on-leave list of the store or, after a failure, without one; the step
\* changes nothing else. The cursor is then written as in any cycle: to the
\* facilitator computed before the lookup.
C34_LeaveLookupFailureIsNotFatal ==
    /\ [][\A c \in CycleIDs :
            LET k == cycles[c] IN
            (k.pc = "leaves" /\ cycles'[c] # k) =>
                /\ \E onLeave \in {<<>>, LeaveEntries(
                                    GetActiveLeavesForStandup(k.standup, today))} :
                        cycles'[c] =
                            [k EXCEPT !.pc = "send",
                                      !.message = [name |-> k.standup,
                                                   today |-> k.current,
                                                   tomorrow |-> k.next,
                                                   body |-> k.standup,
                                                   onLeave |-> onLeave]]
                /\ UNCHANGED <<standups, standup_members, users, leaves, fin>>]_vars
    /\ [](\A c \in CycleIDs :
            cycles[c].pc \in {"send", "advance"} =>
                cycles[c].message.today = cycles[c].current)
    /\ [](fin.pc = "completed" /\ fin.wrote # NULL =>
            /\ fin.sendOk /\ fin.wrote = fin.current
            /\ fin.current = fin.message.today)

\* On day 1 user 2 is on leave; the cycle's lookup of the leaves failed, the
\* message went out without the on-leave list, and the cursor was advanced
\* from user 1 to user 3.
C34_Witness ==
    /\ today = 1 /\ OnLeave(2, today)
    /\ GetActiveLeavesForStandup(EditedStandup, today) # <<>>
    /\ fin.pc = "completed" /\ fin.sendOk /\ fin.message.onLeave = <<>>
    /\ fin.last = 1 /\ fin.wrote = 3 /\ fin.message.today = 3
    /\ standups[EditedStandup].last_facilitator_id = 3


\* ------------------------------------------------------------ the message
\* Users take leaves that start on day 0 and end on the last day, the days
\* pass, and then a cycle of the edited standup runs.
NextCompose ==
    \/ Quiet /\ CyclePlain /\ \E u \in LeaveUsers : CreateLeaveHandler(u, 0, MaxDay)
    \/ Quiet /\ CyclePlain /\ NextDay
    \/ CyclePlain /\ CycleSteps(1)
SpecCompose == InitLeaves /\ [][NextCompose]_vars

\* C35: the message is composed from the standup, the current facilitator,
\* the next facilitator and the active leaves alone. For every such input
\* it carries the standup's name and message body, the line of today's
\* facilitator exactly when a current facilitator is given and then with
\* that member, the line of tomorrow's exactly when a next facilitator is
\* given, and an on-leave list with one entry for each active leave, in
\* their order, which is absent (empty) exactly when there is none. The
\* message a cycle sends is the message of its own four inputs.
C35_MessageHasItsSections ==
    /\ \A s \in StandupIDs :
        \A al \in {<<>>, GetActiveLeavesForStandup(s, today)},
           cur \in Users \cup {NULL}, nxt \in Users \cup {NULL} :
            LET m == ComposeMessage(s, cur, nxt, al) IN
            /\ m.name = s /\ m.body = s
            /\ (m.today # NULL) <=> (cur # NULL)
            /\ m.today = cur
            /\ (m.tomorrow # NULL) <=> (nxt # NULL)
            /\ m.tomorrow = nxt
            /\ (m.onLeave # <<>>) <=> (al # <<>>)
            /\ Len(m.onLeave) = Len(al)
            /\ \A i \in DOMAIN al :
                    m.onLeave[i] = <<al[i].user_id, al[i].leave_type>>
    /\ \A c \in CycleIDs :
            LET k == cycles[c] IN
            k.pc \in {"send", "advance"} =>
                /\ k.message.name = k.standup /\ k.message.body = k.standup
                /\ k.message.today = k.current /\ k.message.tomorrow = k.next
                /\ \A i \in DOMAIN k.message.onLeave :
                        \E l \in leaves :
                            /\ l.user_id = k.message.onLeave[i][1]
                            /\ l.user_id \in DOMAIN standup_members[k.standup]

\* Users 1 and 2 have active leaves that cover day 1; the cycle found user 3
\* as the facilitator, its query for the next one failed: the message has
\* the line of today, no line of tomorrow and two on-leave entries.
C35_Witness ==
    /\ today = 1
    /\ \E c \in CycleIDs :
        /\ cycles[c].pc = "send"
        /\ cycles[c].message.today = 3 /\ cycles[c].message.tomorrow = NULL
        /\ Len(cycles[c].message.onLeave) = 2
        /\ cycles[c].message.onLeave[1][1] = 1
        /\ cycles[c].message.onLeave[2][1] = 2


\* ------------------------------------------------------------ the rounds
\* The cycles of the edited standup, one after the other, started by its
\* timer and by the manual trigger, on a roster set up beforehand whose
\* members are all active and never on leave.
NextRound == CycleSteps(1)
SpecRound == InitRotation /\ [][NextRound]_vars

\* The member after u in the cyclic order of the list q.
CyclicSuccessor(q, u) == q[(IndexOf(q, u) % Len(q)) + 1]

\* The facilitators of n cycles that run one after the other from the
\* cursor last, each of which delivers its message and writes its
\* facilitator to the cursor the next one reads.
RECURSIVE NamesFrom(_, _, _, _)
NamesFrom(last, allMembers, eligibleUsers, n) ==
    IF n = 0 THEN <<>>
    ELSE LET currentFac == GetCurrentFacilitator(last, allMembers, eligibleUsers)
         IN  <<currentFac>> \o NamesFrom(currentFac, allMembers, eligibleUsers, n - 1)

\* The cycle k follows, on the same standup and with the same eligible
\* list, which holds every member of the roster, the cycle that ended last.
FollowsOnFullRoster(k) ==
    /\ k.pc \in {"next", "leaves", "send", "advance"}
    /\ k.standup = fin.standup
    /\ k.users = fin.users
    /\ Range(k.users) = DOMAIN standup_members[k.standup]

InitOverlap ==
    /\ InitStandups
    /\ standup_members = [s \in StandupIDs |-> BystanderRows]
    /\ \E act \in [Users -> BOOLEAN] :
            users = [u \in Users |-> [is_active |-> act[u]]]
    /\ leaves = {}
    /\ today = 0
    /\ rowOrder = [i \in 1..MaxUsers |-> i]
    /\ config = [SkipWeekends |-> FALSE]
    /\ InitServing

TriggerOpen ==
    \/ standups[EditedStandup].last_facilitator_id = NULL
    \/ CyclesInFlight = {} /\ fin.last = NULL
NextOverlap ==
    \/ TriggerOpen /\ \E c \in CycleIDs : TimerFire(c, MaxCycles)
    \/ TriggerOpen /\ \E c \in CycleIDs :
            SendManualStandupReminder(c, EditedStandup, MaxCycles)
    \/ \E c \in CycleIDs : CycleProgress(c) /\ CallsSucceed'
SpecOverlap == InitOverlap /\ [][NextOverlap]_vars

\* C37 as stated: a cycle that has delivered its message names another
\* member than the cycle that delivered before it and ended last, whether
\* the two overlapped or not. (Violated: two cycles that overlap both read
\* the cursor before either writes it, and name the same member.)
C37_NeverTheSameMemberTwice ==
    \A c \in CycleIDs :
        LET k == cycles[c] IN
        (/\ fin.pc = "completed" /\ fin.sendOk
         /\ k.pc = "advance" /\ k.sendOk /\ k.standup = fin.standup
         /\ Len(k.users) >= 2 /\ Len(fin.users) >= 2
         /\ \A d \in CycleIDs \ {c} : cycles[d].sendCalls = 0)
        => k.current # fin.current

\* C37 for cycles of which the second reads the cursor the first has
\* written, as two cycles that do not overlap do: with two eligible members
\* or more the second cycle names another member than the first.
C37_NextReaderNamesAnotherMember ==
    \A c \in CycleIDs :
        LET k == cycles[c] IN
        (/\ fin.pc = "completed" /\ fin.sendOk /\ fin.wrote # NULL
         /\ k.pc \in {"next", "leaves", "send", "advance"}
         /\ k.standup = fin.standup
         /\ k.last = fin.wrote
         /\ Len(k.users) >= 2)
        => k.current # fin.current

\* The timer's cycle named user 1 and wrote the cursor; the cycle of a
\* manual trigger that read that cursor has delivered a message naming
\* user 2.
C37_Witness ==
    /\ fin.pc = "completed" /\ fin.trigger = "timer" /\ fin.wrote = 1
    /\ \E c \in CycleIDs :
        /\ cycles[c].pc = "advance" /\ cycles[c].trigger = "manual"
        /\ cycles[c].sendOk /\ cycles[c].last = 1 /\ cycles[c].current = 2


\* ------------------------------------------------- the roster changes meanwhile
\* A cycle of the edited standup runs on a roster set up beforehand, and
\* between its eligibility query and its roster queries members are removed
\* and the roster is replaced by the list of all users in descending order;
\* before the cycle the cursor is set by request, also to a user that is
\* not on the roster, and user 1 is deactivated.
RosterQueriesAhead ==
    \E c \in CycleIDs : cycles[c].pc \in {"cursor", "members", "next"}
NextChange ==
    \/ CyclePlain /\ CycleSteps(1)
    \/ RosterQueriesAhead /\ \E c \in CallIDs, u \in Users :
            RemoveStandupMember(c, EditedStandup, u, 1)
    \/ RosterQueriesAhead /\ \E c \in CallIDs :
            SetStandupMembers(c, EditedStandup,
                              [i \in 1..MaxUsers |-> MaxUsers + 1 - i], 1)
    \/ Quiet /\ CyclePlain /\ \E u \in Users : SetLastFacilitator(EditedStandup, u)
    \/ Quiet /\ CyclePlain /\ DeactivateUser(1)
SpecChange == InitRotation /\ [][NextChange]_vars

\* C38: the member GetCurrentFacilitator or GetNextFacilitator returns is
\* one of the eligible list it was given: for the eligible list a cycle
\* has read and the roster as it is at any later time, whatever the cursor
\* and whatever the anchor (unset, not on the roster, or at any position),
\* and so for the facilitators a cycle has computed.
C38_FacilitatorIsEligible ==
    \A c \in CycleIDs :
        LET k == cycles[c]
            allMembers == GetStandupMembers(standup_members[k.standup]) IN
        /\ k.current # NULL => k.current \in Range(k.users)
        /\ k.next # NULL => k.next \in Range(k.users)
        /\ (k.gotUsers /\ Len(k.users) > 0) =>
            /\ \A last \in Users \cup {NULL} :
                    GetCurrentFacilitator(last, allMembers, k.users) \in Range(k.users)
            /\ \A currentFacilitatorID \in Users :
                    GetNextFacilitator(allMembers, k.users, currentFacilitatorID)
                        \in Range(k.users)

\* The cycle read the eligible users [2, 3] of the roster [1, 2, 3] with
\* user 1 deactivated and the cursor at user 2; then user 3 was removed from
\* the roster: the scan of the roster [1, 2] from user 2 wraps to user 2,
\* the only member of the roster that is in the list.
C38_Witness ==
    \E c \in CycleIDs :
        /\ cycles[c].pc = "next" /\ cycles[c].users = <<2, 3>>
        /\ cycles[c].last = 2 /\ cycles[c].current = 2
        /\ GetStandupMembers(standup_members[EditedStandup]) = <<1, 2>>
        /\ ret.op = "RemoveStandupMember" /\ ret.user = 3 /\ ret.err = "nil"


\* ------------------------------------------------- the failed cursor write
\* C39: the step after a delivery that succeeded ends the cycle as completed
\* whether the cursor write succeeds or not, with the message sent by one
\* delivery call and without another attempt; when the write failed,
\* last_facilitator_id is what it was, and the cycle that follows on the
\* same eligible list reads the same cursor and names the same facilitator.
C39_FailedCursorWriteCompletes ==
    /\ [][\A c \in CycleIDs :
            LET k == cycles[c] IN
            (k.pc = "advance" /\ cycles'[c] # k) =>
                /\ k.sendOk /\ k.sendCalls = 1
                /\ cycles'[c] = NoCycle
                /\ fin'.pc = "completed" /\ fin'.message = k.message
                /\ fin'.wrote = NULL =>
                        /\ standups' = standups
                        /\ ~fin'.changed]_vars
    /\ [](\A c \in CycleIDs :
            LET k == cycles[c] IN
            (/\ fin.pc = "completed" /\ fin.sendOk /\ fin.wrote = NULL
             /\ k.pc \in {"next", "leaves", "send", "advance"}
             /\ k.users = fin.users) =>
                /\ k.last = fin.last
                /\ k.current = fin.current)

\* On the roster [1, 2] with the cursor unset a cycle named user 1,
\* delivered, and its cursor write failed; the cycle after it names user 1.
C39_Witness ==
    /\ GetStandupMembers(standup_members[EditedStandup]) = <<1, 2>>
    /\ standups[EditedStandup].last_facilitator_id = NULL
    /\ fin.pc = "completed" /\ fin.sendOk /\ fin.wrote = NULL
    /\ fin.current = 1 /\ ~fin.changed
    /\ \E c \in CycleIDs :
        /\ cycles[c].pc = "send" /\ cycles[c].current = 1
        /\ cycles[c].message.today = 1


\* ------------------------------------------------- replacing the roster
\* The roster of the edited standup, set up beforehand, is replaced by
\* request with every list of up to MaxUsers user ids, lists that name a
\* user twice included, members are removed and the cursor is set by
\* request; the store answers or fails.
NextReplace ==
    \/ \E c \in CallIDs, ids \in SeqsUpTo(Users, MaxUsers) :
            SetStandupMembers(c, EditedStandup, ids, 1)
    \/ \E c \in CallIDs, u \in Users :
            RemoveStandupMember(c, EditedStandup, u, 1)
    \/ \E u \in Users : SetLastFacilitator(EditedStandup, u)
SpecReplace == InitRotation /\ [][NextReplace]_vars

\* C40: a SetStandupMembers call that returns an error leaves every roster,
\* with every display_order, as it was before the call; a call that returns
\* no error was given a list without a repeated user id and has stored
\* exactly that list, position i (from 0) as display_order, so that a list
\* that names a user twice always returns an error.
C40_SetMembersIsAllOrNothing ==
    [][ret'.op = "SetStandupMembers" =>
        /\ ret'.err # "nil" => standup_members' = standup_members
        /\ ret'.err = "nil" =>
            /\ IsInjective(ret'.list)
            /\ DOMAIN standup_members'[EditedStandup] = Range(ret'.list)
            /\ \A i \in DOMAIN ret'.list :
                    standup_members'[EditedStandup][ret'.list[i]] = i - 1
            /\ \A s \in StandupIDs \ {EditedStandup} :
                    standup_members'[s] = standup_members[s]]_vars

\* The roster [2, 3], with the display orders 0 and 1, after a
\* SetStandupMembers call has failed.
C40_Witness ==
    /\ GetStandupMembers(standup_members[EditedStandup]) = <<2, 3>>
    /\ standup_members[EditedStandup][2] = 0
    /\ standup_members[EditedStandup][3] = 1
    /\ ret.op = "SetStandupMembers" /\ ret.err = "failed"
============================================================================
